---- MODULE Spec2Model ----
(***************************************************************************)
(* Ingestion and index subsystem of fhir-community-search.                 *)
(*                                                                         *)
(*   SpecUpsert  any sequence of insertIssue calls on the JSON issue store *)
(*   Spec        the issue downloader's main(): connection test, open or   *)
(*               create the store, the fetch/commit loop, its catch block  *)
(*   SpecChat    the chat downloader's downloadWithApi()                   *)
(*   SpecSearch  search() of the issue search tool over a store built by   *)
(*               insertIssue calls                                         *)
(*   SpecThread  getThread() of the chat search tool, reading the store    *)
(*               while downloadWithApi() runs                              *)
(*   SpecTransform  one insertIssue call for every shape of a raw field    *)
(*   SpecMalformed  main() over a corpus holding a record that cannot be   *)
(*               transformed, main() fairly scheduled                      *)
(*   SpecShrinking  main() over a corpus that loses records during the run *)
(*   SpecSql     the raw sql command and search() on a read-only connection*)
(*   SpecFetchers   either downloader, each on the store of its own corpus *)
(*   SpecStaleServer  downloadWithApi() against a server whose answer may  *)
(*               stay at the anchor                                        *)
(*   SpecRecord  transformIssue over records whose optional fields are     *)
(*               present, missing, null or of an unexpected shape          *)
(*   SpecColumns any sequence of insertIssue calls on the issue store with *)
(*               one column per field and a comments table                 *)
(*                                                                         *)
(* A text is a sequence of words (what the FTS5 tokenizer sees); a JSON    *)
(* value is a record [t, v] with t one of null, undef, str, arr, obj.      *)
(***************************************************************************)
EXTENDS Integers, Sequences, FiniteSets, TLC

VARIABLES
  db,        \* the committed content of the database file (what a reader sees)
  wdb,       \* the content seen by the writer's connection (db + open transaction)
  inTxn,     \* a transaction opened by BEGIN is active on the writer's connection
  pc,        \* position of main() / downloadWithApi()
  resume,    \* the --resume flag of the current run
  total,     \* testResponse.total
  startAt,   \* the offset of the next batch
  response,  \* response.issues of the batch being committed
  idx,       \* number of issues of the batch already inserted
  err,       \* the error caught by the catch block
  outcome,   \* how the run ended
  progress,  \* the position printed by "Current progress: startAt/total"
  obs,       \* observations of the run: first request, batch base, resumed position
  last,      \* SpecUpsert: the previous call (issue, store before it)
  streamIdx, \* SpecChat: i, the index of the stream being downloaded
  anchor,    \* SpecChat: the anchor of the next getMessages request
  foundNewest, \* SpecChat: the found_newest flag of the last committed batch
  request,   \* the arguments of the search tool's current call; SpecRecord: the raw record
  result,    \* what that call returned
  remote     \* the remote issue corpus as the server holds it now

vars == <<db, wdb, inTxn, pc, resume, total, startAt, response, idx, err,
          outcome, progress, obs, last, streamIdx, anchor, foundNewest,
          request, result, remote>>

queryVars == <<request, result>>

chatVars == <<streamIdx, anchor, foundNewest>>

issueVars == <<total, startAt, idx, progress, last>>

-----------------------------------------------------------------------------
(* Bounds *)

NumIssues == 5     \* issues in the remote corpus (testResponse.total)
BatchSize == 2     \* maxResults of one fetch (100 in the source, scaled down)
NumKeys   == 2     \* SpecUpsert: distinct issue keys
NumVers   == 2     \* SpecUpsert: versions of one issue

-----------------------------------------------------------------------------
(* JSON values *)

Null  == [t |-> "null",  v |-> <<>>]
Undef == [t |-> "undef", v |-> <<>>]
Str(ws) == [t |-> "str", v |-> ws]
Arr(xs) == [t |-> "arr", v |-> xs]
Obj(props) == [t |-> "obj", v |-> props]

\* An option object of a dropdown field: { value: x }
Opt(x)  == Obj([value |-> x])

\* val.p (undefined when val has no such property or is not an object)
Get(val, p) == IF val.t = "obj" /\ p \in DOMAIN val.v THEN val.v[p] ELSE Undef

\* val?.p
GetOpt(val, p) == IF val.t \in {"null", "undef"} THEN Undef ELSE Get(val, p)

Word(tag, k, n) == <<tag, k, n>>

\* JavaScript truthiness of a value: null, undefined and "" are falsy.
Truthy(val) ==
  /\ val.t \notin {"null", "undef"}
  /\ ~(val.t = "str" /\ val.v = <<>>)

\* a || b
OrElse(a, b) == IF Truthy(a) THEN a ELSE b

RECURSIVE SeqFilterNonNull(_)
SeqFilterNonNull(s) ==
  IF s = <<>> THEN <<>>
  ELSE IF Head(s).t = "null" THEN SeqFilterNonNull(Tail(s))
       ELSE <<Head(s)>> \o SeqFilterNonNull(Tail(s))

RECURSIVE extractValue(_)
extractValue(val) ==
  IF val.t \in {"null", "undef"} THEN Null
  ELSE IF val.t = "arr" THEN
    LET extracted == SeqFilterNonNull([i \in 1..Len(val.v) |-> extractValue(val.v[i])])
    IN  IF Len(extracted) > 0 THEN Arr(extracted) ELSE Null
  ELSE IF val.t = "obj" THEN
    IF Truthy(Get(val, "key")) /\ Truthy(Get(val, "fields")) THEN
      Obj([key |-> Get(val, "key"),
           summary |-> Get(Get(val, "fields"), "summary"),
           status |-> GetOpt(Get(Get(val, "fields"), "status"), "name"),
           type |-> GetOpt(Get(Get(val, "fields"), "issuetype"), "name")])
    ELSE IF Truthy(Get(val, "displayName")) /\ Truthy(Get(val, "name")) THEN
      Obj([name |-> Get(val, "displayName"), username |-> Get(val, "name")])
    ELSE IF Get(val, "value") # Undef THEN Get(val, "value")
    ELSE IF Get(val, "name") # Undef THEN Get(val, "name")
    ELSE val
  ELSE val

\* The text of a string value ("" for anything that is not a string).
TextOf(val) == IF val.t = "str" THEN val.v ELSE <<>>

\* Array.prototype.join of an array of strings, as the words of the result;
\* null and undefined elements join as "".
RECURSIVE JoinTexts(_)
JoinTexts(s) ==
  IF s = <<>> THEN <<>> ELSE TextOf(Head(s)) \o JoinTexts(Tail(s))

-----------------------------------------------------------------------------
(* Raw issues *)

\* A reference to issue k as the remote API nests it in another issue: the
\* whole nested issue when withFields, its identifiers alone otherwise.
IssueRef(k, withFields) ==
  LET ids == [id |-> Str(<<Word("id", k, 0)>>),
              key |-> Str(<<Word("key", k, 0)>>),
              self |-> Str(<<Word("self", k, 0)>>)]
      fields == Obj([summary |-> Str(<<Word("summary", k, 0)>>),
                     status |-> Obj([id |-> Str(<<Word("id", k, 1)>>),
                                     name |-> Str(<<Word("status", k % 2, 0)>>)]),
                     issuetype |-> Obj([id |-> Str(<<Word("id", k, 2)>>),
                                        name |-> Str(<<Word("type", 0, 0)>>)]),
                     priority |-> Obj([id |-> Str(<<Word("id", k, 3)>>),
                                       name |-> Str(<<Word("priority", 0, 0)>>)])])
  IN  IF withFields
      THEN Obj([id |-> ids.id, key |-> ids.key, self |-> ids.self, fields |-> fields])
      ELSE Obj(ids)

\* The time of version n of issue k, as the position of its ISO 8601 text
\* (always written with offset +0000) in string order; two issues can
\* carry the same time.
UpdatedAt(k, n) == 2 * n + (k % 2)

Alpha == Word("alpha", 0, 0)

Beta == Word("beta", 0, 0)

\* Words of the summary that issues share: "alpha beta", "alpha" or "beta".
Topic(k, n) ==
  IF (k + n) % 3 = 2 THEN <<Alpha, Beta>>
  ELSE IF (k + n) % 3 = 0 THEN <<Alpha>>
  ELSE <<Beta>>

\* Version n of the issue with key k, as the remote API returns it.  The
\* shape varies with k so that null, empty, scalar, option and array values
\* all occur; every version of an issue shares the word <<"common", k, 0>>.
RawIssue(k, n) ==
  [key |-> k,
   fields |->
     [summary |-> Str(<<Word("common", k, 0), Word("summary", k, n)>> \o Topic(k, n)),
      description |-> IF k % 3 = 0 THEN Null ELSE Str(<<Word("description", k, n)>>),
      labels |-> IF k % 2 = 0 THEN Arr(<<>>)
                 ELSE Arr(<<Str(<<Word("label", k, n)>>), Str(<<Word("label", k, 0)>>)>>),
      comment |-> IF k % 3 = 1 THEN <<>>
                  ELSE [i \in 1..n |-> [body |-> Str(<<Word("comment", k, i)>>)]],
      customfield_11302 |-> IF k % 2 = 0 THEN Str(<<Word("spec", k, 0)>>)
                            ELSE Arr(<<Str(<<Word("spec", k, 0)>>), Null>>),
      customfield_11400 |-> Opt(Str(<<Word("wg", k, 0)>>)),
      customfield_11300 |-> IF k % 3 = 2 THEN Arr(<<Null>>)
                            ELSE Arr(<<Str(<<Word("artifact", k, n)>>)>>),
      customfield_10618 |-> IF n = 1 THEN Null ELSE Str(<<Word("resolution", k, n)>>),
      status |-> Obj([id |-> Str(<<Word("id", k, 1)>>),
                      name |-> Str(<<Word("status", (k + n) % 2, 0)>>)]),
      updated |-> Str(<<Word("time", UpdatedAt(k, n), 0)>>),
      customfield_10902 |-> IF k % 2 = 1 THEN Str(<<Word("ballot", 1, 0)>>) ELSE Null,
      customfield_11808 |-> Arr(<<Opt(Str(<<Word("version", n % 2, 0)>>)),
                                  Opt(Str(<<Word("version", 2, 0)>>))>>),
      customfield_10511 |-> IF k % 3 = 0 THEN Null
                            ELSE Opt(Str(<<Word("impact", k % 2, 0)>>)),
      customfield_14905 |-> IF k % 3 = 1 THEN Arr(<<IssueRef(k + 1, TRUE)>>)
                            ELSE IF k % 3 = 2 THEN Arr(<<>>)
                            ELSE Null,
      customfield_14909 |-> IF k % 2 = 0 THEN IssueRef(k - 1, TRUE) ELSE Null,
      environment |-> Str(<<Word("environment", k, 0)>>),
      workratio |-> Str(<<Word("workratio", k, 0)>>)]]

\* The remote corpus in key order (jql: project=FHIR ORDER BY key ASC).
Remote == [i \in 1..NumIssues |-> RawIssue(i, 1)]

\* What the server holds: the first len records of the corpus (the later
\* ones were deleted or moved out of the project), and the keys of the
\* records whose JSON transformIssue cannot read (fields is missing).
RemoteOk == [len |-> NumIssues, malformed |-> {}]

UpsertInputs == {RawIssue(k, n) : k \in 1..NumKeys, n \in 1..NumVers}

\* Mutant of FIELD_MAP: an identifier of SKIP_FIELDS is given a semantic
\* name.
FIELD_MAP_WithSkipped ==
  [workratio |-> "specification",
   customfield_11400 |-> "work_group",
   customfield_11300 |-> "related_artifacts",
   customfield_10618 |-> "resolution_description",
   customfield_10902 |-> "selected_ballot",
   customfield_11808 |-> "raised_in_version",
   customfield_10511 |-> "change_impact",
   customfield_14905 |-> "related_issues",
   customfield_14909 |-> "duplicate_of"]

FIELD_MAP ==
  [customfield_11302 |-> "specification",
   customfield_11400 |-> "work_group",
   customfield_11300 |-> "related_artifacts",
   customfield_10618 |-> "resolution_description",
   customfield_10902 |-> "selected_ballot",
   customfield_11808 |-> "raised_in_version",
   customfield_10511 |-> "change_impact",
   customfield_14905 |-> "related_issues",
   customfield_14909 |-> "duplicate_of"]

SKIP_FIELDS == {"workratio", "watches", "lastViewed", "archiveddate", "archivedby",
                "project"}

\* The properties transformIssue can set on a document.
DocFields == {"key", "summary", "description", "status", "updated_at", "labels",
              "comments"} \cup {FIELD_MAP[j] : j \in DOMAIN FIELD_MAP}

\* transformIssue: the canonical document, with Undef for a property never set.
transformIssue(raw) ==
  LET f == raw.fields
      \* for (const [jiraField, semanticName] of Object.entries(FIELD_MAP))
      custom(semanticName) ==
        LET jiraField == CHOOSE j \in DOMAIN FIELD_MAP : FIELD_MAP[j] = semanticName
            val == extractValue(f[jiraField])
        IN  IF val.t \notin {"null", "undef"} THEN val ELSE Undef
  IN  [key |-> raw.key,
       summary |-> OrElse(f.summary, Null),
       description |-> OrElse(f.description, Null),
       status |-> extractValue(f.status),
       updated_at |-> OrElse(f.updated, Null),
       labels |-> IF f.labels.t = "arr" /\ Len(f.labels.v) > 0 THEN f.labels ELSE Null,
       comments |-> IF Len(f.comment) > 0
                    THEN Arr([i \in 1..Len(f.comment) |-> f.comment[i].body])
                    ELSE Undef,
       specification |-> custom("specification"),
       work_group |-> custom("work_group"),
       related_artifacts |-> custom("related_artifacts"),
       resolution_description |-> custom("resolution_description"),
       selected_ballot |-> custom("selected_ballot"),
       raised_in_version |-> custom("raised_in_version"),
       change_impact |-> custom("change_impact"),
       related_issues |-> custom("related_issues"),
       duplicate_of |-> custom("duplicate_of")]

\* JSON.stringify of a value: a property whose value is undefined is left
\* out of its object, an undefined array element is written as null.
RECURSIVE StringifyValue(_)
StringifyValue(val) ==
  IF val.t = "obj" THEN
    Obj([p \in {q \in DOMAIN val.v : val.v[q].t # "undef"} |-> StringifyValue(val.v[p])])
  ELSE IF val.t = "arr" THEN
    Arr([i \in 1..Len(val.v) |->
           IF val.v[i].t = "undef" THEN Null ELSE StringifyValue(val.v[i])])
  ELSE val

\* JSON.stringify(doc): properties whose value is undefined are left out.
JSONStringify(doc) ==
  [g \in {h \in DocFields : h = "key" \/ doc[h] # Undef} |->
     IF g = "key" THEN doc.key ELSE StringifyValue(doc[g])]

\* Array.isArray(x) ? x.join(" ") : (x || "")
JoinOrText(val) == IF val.t = "arr" THEN JoinTexts(val.v) ELSE TextOf(val)

FtsColumns == {"key", "summary", "description", "specification", "work_group",
               "related_artifacts", "resolution_description", "labels",
               "comments_text"}

\* The values insertIssue binds to the INSERT INTO issues_fts statement.
FtsProjection(doc) ==
  [key |-> <<doc.key>>,
   summary |-> TextOf(doc.summary),
   description |-> TextOf(doc.description),
   specification |-> JoinOrText(doc.specification),
   work_group |-> JoinOrText(doc.work_group),
   related_artifacts |-> JoinOrText(doc.related_artifacts),
   resolution_description |-> TextOf(doc.resolution_description),
   labels |-> JoinOrText(doc.labels),
   comments_text |-> IF doc.comments.t = "arr" THEN JoinTexts(doc.comments.v) ELSE <<>>]

-----------------------------------------------------------------------------
(* The SQLite store of the JSON issue corpus *)

SetMax(S) == CHOOSE x \in S : \A y \in S : y <= x

\* The rowid SQLite gives a row inserted without one: largest rowid + 1.
NewRowid(rows) == IF rows = {} THEN 1 ELSE SetMax({r.rowid : r \in rows}) + 1

NoDatabase == [exists |-> FALSE, issues |-> {}, fts |-> {}, indexes |-> FALSE]

\* Mutant of createDatabase: the tables are created only when they are
\* missing and are never dropped.
createDatabaseKeepsTables ==
  IF db.exists THEN db
  ELSE [exists |-> TRUE, issues |-> {}, fts |-> {}, indexes |-> FALSE]

\* createDatabase: both tables dropped and created empty.
createDatabase == [exists |-> TRUE, issues |-> {}, fts |-> {}, indexes |-> FALSE]

\* Mutant of InsertOrReplaceIssue: the new row takes the rowid of the row
\* it replaces.
InsertOrReplaceKeepsRowid(d, key, data) ==
  LET old == {r \in d.issues : r.key = key}
      id  == IF old = {} THEN NewRowid(d.issues) ELSE (CHOOSE r \in old : TRUE).rowid
  IN  [d EXCEPT !.issues = (d.issues \ old)
                             \cup {[rowid |-> id, key |-> key, data |-> data]}]

\* INSERT OR REPLACE INTO issues (key, data): the row holding the key is
\* deleted and the new row takes a rowid chosen before that deletion.
InsertOrReplaceIssue(d, key, data) ==
  [d EXCEPT !.issues = {r \in d.issues : r.key # key}
                         \cup {[rowid |-> NewRowid(d.issues), key |-> key, data |-> data]}]

\* What reading a column of an issues_fts row yields.  The table is declared
\* content='' (contentless): FTS5 keeps the tokens and no column values, and
\* every column other than rowid reads as NULL.
FtsColumnValue(row, col) == Null

\* DELETE FROM issues_fts WHERE key = ?  -- the rows whose key column, as
\* read, equals the bound key.
DeleteFtsWhereKey(d, key) ==
  [d EXCEPT !.fts = {r \in d.fts : FtsColumnValue(r, "key") # Str(<<key>>)}]

\* INSERT INTO issues_fts (...) VALUES (...): a new row, new rowid.
InsertFts(d, cols) ==
  [d EXCEPT !.fts = d.fts \cup {[rowid |-> NewRowid(d.fts), cols |-> cols]}]

\* The first n of the three statements of insertIssue (n = 3: the whole call).
insertIssueUpTo(d, issue, n) ==
  LET doc == transformIssue(issue)
      d1  == IF n >= 1 THEN InsertOrReplaceIssue(d, doc.key, JSONStringify(doc)) ELSE d
      d2  == IF n >= 2 THEN DeleteFtsWhereKey(d1, doc.key) ELSE d1
  IN  IF n >= 3 THEN InsertFts(d2, FtsProjection(doc)) ELSE d2

insertIssue(d, issue) == insertIssueUpTo(d, issue, 3)

\* Mutants of getResumePoint: a position that ignores the store, and one
\* that names the last stored document instead of the next one.
getResumePointZero(d) == 0

getResumePointLast(d) == IF d.issues = {} THEN 0 ELSE Cardinality(d.issues) - 1

\* SELECT COUNT(*) as cnt FROM issues
getResumePoint(d) == Cardinality(d.issues)

\* createIndexes: CREATE INDEX IF NOT EXISTS on four JSON paths.
createIndexes(d) == [d EXCEPT !.indexes = TRUE]

-----------------------------------------------------------------------------
(* Arguments and result of the search tool *)

\* No full-text expression (filters.query is undefined).
NoQuery == [op |-> "none"]

\* parseInt's NaN, and an integer limit.
NaN == [nan |-> TRUE, n |-> 0]

Int32(n) == [nan |-> FALSE, n |-> n]

NoRequest == [filters |-> <<>>, query |-> NoQuery, limit |-> Int32(0)]

\* ok: the call returned rows; ~ok: it threw.
NoRows == [ok |-> TRUE, rows |-> <<>>]

-----------------------------------------------------------------------------
(* Any sequence of insertIssue calls, each in its own BEGIN ... COMMIT *)

MaxCalls == 4      \* SpecUpsert: number of insertIssue calls in one behaviour

NoIssue == [key |-> 0, fields |-> <<>>]

NoErr == [phase |-> "none", status |-> 0, text40x |-> FALSE]

NoObs == [firstAt |-> -1, firstCount |-> -1, resumedAt |-> -1,
          base |-> NoDatabase, baseAt |-> -1, failAt |-> -1, failStmt |-> -1]

InitUpsert ==
  /\ db = createDatabase
  /\ wdb = createDatabase
  /\ inTxn = FALSE
  /\ pc = "upsert"
  /\ resume = FALSE
  /\ total = 0
  /\ startAt = 0
  /\ response = <<>>
  /\ idx = 0
  /\ err = NoErr
  /\ outcome = "running"
  /\ progress = -1
  /\ obs = NoObs
  /\ last = [n |-> 0, issue |-> NoIssue, prev |-> NoIssue,
             before |-> createDatabase, before2 |-> createDatabase]
  /\ streamIdx = 0
  /\ anchor = 0
  /\ foundNewest = FALSE
  /\ request = NoRequest
  /\ result = NoRows
  /\ remote = RemoteOk

\* BEGIN; insertIssue(db, issue); COMMIT
UpsertCall(issue) ==
  /\ pc = "upsert"
  /\ last.n < MaxCalls
  /\ db' = insertIssue(db, issue)
  /\ wdb' = db'
  /\ last' = [n |-> last.n + 1, issue |-> issue, prev |-> last.issue,
              before |-> db, before2 |-> last.before]
  /\ UNCHANGED <<inTxn, pc, resume, total, startAt, response, idx, err,
                 outcome, progress, obs>>
  /\ UNCHANGED chatVars
  /\ UNCHANGED queryVars
  /\ UNCHANGED remote

NextUpsert == \E issue \in UpsertInputs : UpsertCall(issue)

SpecUpsert == InitUpsert /\ [][NextUpsert]_vars

-----------------------------------------------------------------------------
(* main() of the issue downloader *)

\* A failed fetch: fetchBatch throws Error(`HTTP ${status}: ${text}`) when the
\* response is not ok (status 0: fetch itself or response.json() threw).
\* text40x: the text of the error message contains "401" or "403".
FetchFailures ==
  {[phase |-> "fetch", status |-> 401, text40x |-> FALSE],
   [phase |-> "fetch", status |-> 403, text40x |-> FALSE],
   [phase |-> "fetch", status |-> 500, text40x |-> FALSE],
   [phase |-> "fetch", status |-> 500, text40x |-> TRUE],
   [phase |-> "fetch", status |-> 0,   text40x |-> FALSE]}

\* An error thrown between BEGIN and COMMIT (transformIssue or a statement).
CommitFailures ==
  {[phase |-> "commit", status |-> 0, text40x |-> b] : b \in BOOLEAN}

\* error.message.includes("403") || error.message.includes("401")
Includes40x(e) == e.status \in {401, 403} \/ e.text40x

Min(a, b) == IF a < b THEN a ELSE b

\* Mutant of fetchBatch: the answer starts one record after startAt.
fetchBatchSkips(from, maxResults) ==
  SubSeq(Remote, from + 2, Min(from + 1 + maxResults, Len(Remote)))

\* The remote API's answer to startAt, maxResults over the corpus.
fetchBatch(from, maxResults) ==
  SubSeq(Remote, from + 1, Min(from + maxResults, Len(Remote)))

\* The same answer over what the server holds now.
Served(r, issues) == SelectSeq(issues, LAMBDA issue : issue.key <= r.len)

\* const f = raw.fields; f.summary  -- a TypeError when fields is missing
Throws(r, issue) == issue.key \in r.malformed

Running == pc \in {"testing", "open", "loop", "begin", "insert", "catch",
                   "classify", "backoff", "finish"}

Init ==
  /\ db = NoDatabase
  /\ wdb = NoDatabase
  /\ inTxn = FALSE
  /\ pc = "idle"
  /\ resume = FALSE
  /\ total = 0
  /\ startAt = 0
  /\ response = <<>>
  /\ idx = 0
  /\ err = NoErr
  /\ outcome = "none"
  /\ progress = -1
  /\ obs = NoObs
  /\ last = [n |-> 0, issue |-> NoIssue, prev |-> NoIssue,
             before |-> NoDatabase, before2 |-> NoDatabase]
  /\ streamIdx = 0
  /\ anchor = 0
  /\ foundNewest = FALSE
  /\ request = NoRequest
  /\ result = NoRows
  /\ remote = RemoteOk

\* A run of main() starts (first run, or a later one after the previous
\* process ended or was killed).
StartRun(r) ==
  /\ pc \in {"idle", "exited", "killed"}
  /\ resume' = r
  /\ pc' = "testing"
  /\ startAt' = 0
  /\ total' = 0
  /\ response' = <<>>
  /\ idx' = 0
  /\ err' = NoErr
  /\ outcome' = "running"
  /\ progress' = -1
  /\ obs' = NoObs
  /\ wdb' = db
  /\ UNCHANGED <<db, inTxn, last>>
  /\ UNCHANGED chatVars
  /\ UNCHANGED queryVars
  /\ UNCHANGED remote

\* const testResponse = await fetchBatch(0, cookies, 1); total = testResponse.total
TestConnectionOk ==
  /\ pc = "testing"
  /\ total' = Len(Served(remote, Remote))
  /\ pc' = "open"
  /\ UNCHANGED <<db, wdb, inTxn, resume, startAt, response, idx, err, outcome,
                 progress, obs, last>>
  /\ UNCHANGED chatVars
  /\ UNCHANGED queryVars
  /\ UNCHANGED remote

\* The connection test throws outside any try: main() rejects.
TestConnectionFail ==
  /\ pc = "testing"
  /\ pc' = "exited"
  /\ outcome' = "rejected"
  /\ UNCHANGED <<db, wdb, inTxn, resume, total, startAt, response, idx, err,
                 progress, obs, last>>
  /\ UNCHANGED chatVars
  /\ UNCHANGED queryVars
  /\ UNCHANGED remote

\* resume && existsSync(dbPath): open the store, startAt = getResumePoint(db)
OpenForResume ==
  /\ pc = "open"
  /\ resume /\ db.exists
  /\ wdb' = db
  /\ startAt' = getResumePoint(db)
  /\ obs' = [obs EXCEPT !.resumedAt = getResumePoint(db)]
  /\ pc' = "loop"
  /\ UNCHANGED <<db, inTxn, resume, total, response, idx, err, outcome,
                 progress, last>>
  /\ UNCHANGED chatVars
  /\ UNCHANGED queryVars
  /\ UNCHANGED remote

\* else: db = createDatabase(dbPath)
CreateFresh ==
  /\ pc = "open"
  /\ ~(resume /\ db.exists)
  /\ db' = createDatabase
  /\ wdb' = createDatabase
  /\ pc' = "loop"
  /\ UNCHANGED <<inTxn, resume, total, startAt, response, idx, err, outcome,
                 progress, obs, last>>
  /\ UNCHANGED chatVars
  /\ UNCHANGED queryVars
  /\ UNCHANGED remote

\* The request of a batch is issued at startAt (recorded for the first one).
Requested ==
  IF obs.firstAt = -1
  THEN [obs EXCEPT !.firstAt = startAt, !.firstCount = Cardinality(db.issues)]
  ELSE obs

\* while (startAt < total) is false
LoopExit ==
  /\ pc = "loop"
  /\ ~(startAt < total)
  /\ pc' = "finish"
  /\ UNCHANGED <<db, wdb, inTxn, resume, total, startAt, response, idx, err,
                 outcome, progress, obs, last>>
  /\ UNCHANGED chatVars
  /\ UNCHANGED queryVars
  /\ UNCHANGED remote

\* const response = await fetchBatch(startAt, cookies, batchSize)
FetchOk ==
  /\ pc = "loop"
  /\ startAt < total
  /\ response' = Served(remote, fetchBatch(startAt, BatchSize))
  /\ obs' = Requested
  /\ pc' = "begin"
  /\ UNCHANGED <<db, wdb, inTxn, resume, total, startAt, idx, err, outcome,
                 progress, last>>
  /\ UNCHANGED chatVars
  /\ UNCHANGED queryVars
  /\ UNCHANGED remote

FetchFail(e) ==
  /\ pc = "loop"
  /\ startAt < total
  /\ err' = e
  /\ obs' = [Requested EXCEPT !.failAt = startAt, !.failStmt = -1]
  /\ pc' = "catch"
  /\ UNCHANGED <<db, wdb, inTxn, resume, total, startAt, response, idx,
                 outcome, progress, last>>
  /\ UNCHANGED chatVars
  /\ UNCHANGED queryVars
  /\ UNCHANGED remote

\* db.exec("BEGIN")
Begin ==
  /\ pc = "begin"
  /\ inTxn' = TRUE
  /\ idx' = 0
  /\ obs' = [obs EXCEPT !.base = db, !.baseAt = startAt]
  /\ pc' = "insert"
  /\ UNCHANGED <<db, wdb, resume, total, startAt, response, err, outcome,
                 progress, last>>
  /\ UNCHANGED chatVars
  /\ UNCHANGED queryVars
  /\ UNCHANGED remote

\* for (const issue of response.issues) insertIssue(db, issue)
InsertOk ==
  /\ pc = "insert"
  /\ idx < Len(response)
  /\ ~Throws(remote, response[idx + 1])
  /\ wdb' = insertIssue(wdb, response[idx + 1])
  /\ idx' = idx + 1
  /\ UNCHANGED <<db, inTxn, pc, resume, total, startAt, response, err, outcome,
                 progress, obs, last>>
  /\ UNCHANGED chatVars
  /\ UNCHANGED queryVars
  /\ UNCHANGED remote

\* insertIssue throws after n of its statements have run.
InsertFail(n, e) ==
  /\ pc = "insert"
  /\ idx < Len(response)
  /\ wdb' = insertIssueUpTo(wdb, response[idx + 1], n)
  /\ err' = e
  /\ obs' = [obs EXCEPT !.failAt = startAt, !.failStmt = n + 1]
  /\ pc' = "catch"
  /\ UNCHANGED <<db, inTxn, resume, total, startAt, response, idx, outcome,
                 progress, last>>
  /\ UNCHANGED chatVars
  /\ UNCHANGED queryVars
  /\ UNCHANGED remote

\* Mutant of AdvanceStartAt: the position moves by the size asked for.
AdvanceByBatchSize(at, issues) == at + BatchSize

\* startAt += response.issues.length
AdvanceStartAt(at, issues) == at + Len(issues)

\* db.exec("COMMIT"); startAt += response.issues.length; await Bun.sleep(150)
Commit ==
  /\ pc = "insert"
  /\ idx = Len(response)
  /\ db' = wdb
  /\ inTxn' = FALSE
  /\ startAt' = AdvanceStartAt(startAt, response)
  /\ pc' = "loop"
  /\ UNCHANGED <<wdb, resume, total, response, idx, err, outcome, progress,
                 obs, last>>
  /\ UNCHANGED chatVars
  /\ UNCHANGED queryVars
  /\ UNCHANGED remote

\* db.exec("COMMIT") throws: the transaction stays open.
CommitFail(e) ==
  /\ pc = "insert"
  /\ idx = Len(response)
  /\ err' = e
  /\ obs' = [obs EXCEPT !.failAt = startAt, !.failStmt = 4]
  /\ pc' = "catch"
  /\ UNCHANGED <<db, wdb, inTxn, resume, total, startAt, response, idx,
                 outcome, progress, last>>
  /\ UNCHANGED chatVars
  /\ UNCHANGED queryVars
  /\ UNCHANGED remote

\* Mutant of Rollback: the writes of the failed batch stay on the connection.
RollbackKeeps(w, d) == w

\* ROLLBACK of the open transaction: the connection sees the committed state.
Rollback(w, d) == d

\* Mutant of RollbackOutsideTxnThrows: a ROLLBACK with no transaction
\* open is accepted silently.
RollbackOutsideTxnIgnored == FALSE

\* db.exec("ROLLBACK") with no transaction open: SQLite answers "cannot
\* rollback - no transaction is active" and exec throws.
RollbackOutsideTxnThrows == TRUE

\* catch: console.error(`Error at ${startAt}`); db.exec("ROLLBACK") with a
\* transaction open.
CatchRollback ==
  /\ pc = "catch"
  /\ inTxn \/ ~RollbackOutsideTxnThrows
  /\ wdb' = Rollback(wdb, db)
  /\ inTxn' = FALSE
  /\ pc' = "classify"
  /\ UNCHANGED <<db, resume, total, startAt, response, idx, err, outcome,
                 progress, obs, last>>
  /\ UNCHANGED chatVars
  /\ UNCHANGED queryVars
  /\ UNCHANGED remote

\* catch: db.exec("ROLLBACK") with no transaction open: SQLite answers
\* "cannot rollback - no transaction is active", exec throws inside the catch
\* block, the error leaves the loop and main() rejects.
CatchRollbackThrows ==
  /\ pc = "catch"
  /\ ~inTxn /\ RollbackOutsideTxnThrows
  /\ pc' = "exited"
  /\ outcome' = "rollback_error"
  /\ UNCHANGED <<db, wdb, inTxn, resume, total, startAt, response, idx, err,
                 progress, obs, last>>
  /\ UNCHANGED chatVars
  /\ UNCHANGED queryVars
  /\ UNCHANGED remote

\* if (message includes "403" or "401") { "Current progress: startAt/total"; break }
ClassifyAuth ==
  /\ pc = "classify"
  /\ Includes40x(err)
  /\ progress' = startAt
  /\ outcome' = "aborted"
  /\ pc' = "finish"
  /\ UNCHANGED <<db, wdb, inTxn, resume, total, startAt, response, idx, err,
                 obs, last>>
  /\ UNCHANGED chatVars
  /\ UNCHANGED queryVars
  /\ UNCHANGED remote

ClassifyTransient ==
  /\ pc = "classify"
  /\ ~Includes40x(err)
  /\ pc' = "backoff"
  /\ UNCHANGED <<db, wdb, inTxn, resume, total, startAt, response, idx, err,
                 outcome, progress, obs, last>>
  /\ UNCHANGED chatVars
  /\ UNCHANGED queryVars
  /\ UNCHANGED remote

\* await Bun.sleep(2000), then the loop condition again
Backoff ==
  /\ pc = "backoff"
  /\ pc' = "loop"
  /\ UNCHANGED <<db, wdb, inTxn, resume, total, startAt, response, idx, err,
                 outcome, progress, obs, last>>
  /\ UNCHANGED chatVars
  /\ UNCHANGED queryVars
  /\ UNCHANGED remote

\* After the loop: createIndexes(db), the statistics, db.close()
Finish ==
  /\ pc = "finish"
  /\ db' = createIndexes(db)
  /\ wdb' = createIndexes(db)
  /\ outcome' = IF outcome = "aborted" THEN "aborted" ELSE "done"
  /\ pc' = "exited"
  /\ UNCHANGED <<inTxn, resume, total, startAt, response, idx, err, progress,
                 obs, last>>
  /\ UNCHANGED chatVars
  /\ UNCHANGED queryVars
  /\ UNCHANGED remote

\* The process is killed: an open transaction is never committed.
Kill ==
  /\ Running
  /\ pc' = "killed"
  /\ wdb' = db
  /\ inTxn' = FALSE
  /\ outcome' = "killed"
  /\ UNCHANGED <<db, resume, total, startAt, response, idx, err, progress,
                 obs, last>>
  /\ UNCHANGED chatVars
  /\ UNCHANGED queryVars
  /\ UNCHANGED remote

\* The steps of a run of main() once it has started.
IssueSteps ==
  \/ TestConnectionOk
  \/ TestConnectionFail
  \/ OpenForResume
  \/ CreateFresh
  \/ LoopExit
  \/ FetchOk
  \/ \E e \in FetchFailures : FetchFail(e)
  \/ Begin
  \/ InsertOk
  \/ \E n \in 0..2, e \in CommitFailures : InsertFail(n, e)
  \/ Commit
  \/ \E e \in CommitFailures : CommitFail(e)
  \/ CatchRollback
  \/ CatchRollbackThrows
  \/ ClassifyAuth
  \/ ClassifyTransient
  \/ Backoff
  \/ Finish
  \/ Kill

Next ==
  \/ \E r \in BOOLEAN : StartRun(r)
  \/ IssueSteps

Spec == Init /\ [][Next]_vars

-----------------------------------------------------------------------------
(* main() of the issue downloader against a corpus holding a record that   *)
(* transformIssue cannot read                                               *)

MaxMalformed == 1   \* records of the corpus that cannot be transformed

Corpora ==
  {[len |-> NumIssues, malformed |-> M] :
     M \in {K \in SUBSET (1..NumIssues) : Cardinality(K) <= MaxMalformed}}

InitMalformed ==
  /\ db = NoDatabase
  /\ wdb = NoDatabase
  /\ inTxn = FALSE
  /\ pc = "idle"
  /\ resume = FALSE
  /\ total = 0
  /\ startAt = 0
  /\ response = <<>>
  /\ idx = 0
  /\ err = NoErr
  /\ outcome = "none"
  /\ progress = -1
  /\ obs = NoObs
  /\ last = [n |-> 0, issue |-> NoIssue, prev |-> NoIssue,
             before |-> NoDatabase, before2 |-> NoDatabase]
  /\ streamIdx = 0
  /\ anchor = 0
  /\ foundNewest = FALSE
  /\ request = NoRequest
  /\ result = NoRows
  /\ remote \in Corpora

\* The error transformIssue throws: a TypeError, its message without digits.
TransformError == [phase |-> "commit", status |-> 0, text40x |-> FALSE]

\* insertIssue(db, issue): transformIssue(issue) throws before any statement.
InsertMalformed ==
  /\ pc = "insert"
  /\ idx < Len(response)
  /\ Throws(remote, response[idx + 1])
  /\ err' = TransformError
  /\ obs' = [obs EXCEPT !.failAt = startAt, !.failStmt = 0]
  /\ pc' = "catch"
  /\ UNCHANGED <<db, wdb, inTxn, resume, total, startAt, response, idx,
                 outcome, progress, last>>
  /\ UNCHANGED chatVars
  /\ UNCHANGED queryVars
  /\ UNCHANGED remote

NextMalformed == Next \/ InsertMalformed

\* The steps main() takes by itself, InsertOk apart: every await resolves,
\* every sleep ends.  A failure of the environment and the start of a new
\* run are no such step.
MainStep ==
  \/ TestConnectionOk
  \/ OpenForResume
  \/ CreateFresh
  \/ LoopExit
  \/ FetchOk
  \/ Begin
  \/ InsertMalformed
  \/ Commit
  \/ CatchRollback
  \/ CatchRollbackThrows
  \/ ClassifyAuth
  \/ ClassifyTransient
  \/ Backoff
  \/ Finish

\* An InsertOk step, told by what it does to idx: the one step of main()
\* that moves idx forward within a batch.
InsertStep ==
  /\ pc = "insert"
  /\ idx < Len(response)
  /\ ~Throws(remote, response[idx + 1])
  /\ idx' = idx + 1

\* main() is scheduled: its next step is taken sooner or later.
MainFair == WF_vars(MainStep) /\ WF_idx(InsertStep)

SpecMalformed == InitMalformed /\ [][NextMalformed]_vars /\ MainFair

-----------------------------------------------------------------------------
(* main() of the issue downloader against a corpus that loses records      *)
(* while the run is under way                                               *)

MaxDeleted == 1   \* records deleted from the corpus after it was created

\* The newest issue of the project is deleted or moved to another project:
\* from now on the server answers over one record fewer.
RemoteDeletes ==
  /\ remote.len > NumIssues - MaxDeleted
  /\ remote.len > 0
  /\ remote' = [remote EXCEPT !.len = @ - 1]
  /\ UNCHANGED <<db, wdb, inTxn, pc, resume, response, err, outcome, obs>>
  /\ UNCHANGED issueVars
  /\ UNCHANGED chatVars
  /\ UNCHANGED queryVars

NextShrinking == Next \/ RemoteDeletes

SpecShrinking == Init /\ [][NextShrinking]_vars /\ MainFair


NumStreams    == 4   \* streams of the remote chat; every third one is private,
                     \* every fourth one has no message yet
MsgsPerStream == 3   \* messages of each stream
NumAfter      == 2   \* num_after of one request (1000 in the source, scaled down)

Oldest == 0          \* the anchor "oldest": before every message id

\* GET /streams
AllStreams ==
  [n \in 1..NumStreams |->
     [stream_id |-> n, name |-> <<Word("stream", n, 0)>>, is_web_public |-> n % 3 # 0]]

RECURSIVE SeqFilterPublic(_)
SeqFilterPublic(ss) ==
  IF ss = <<>> THEN <<>>
  ELSE IF Head(ss).is_web_public THEN <<Head(ss)>> \o SeqFilterPublic(Tail(ss))
       ELSE SeqFilterPublic(Tail(ss))

\* Mutant of Streams: the private streams are kept.
StreamsUnfiltered == AllStreams

\* allStreams.filter(s => s.is_web_public)
Streams == SeqFilterPublic(AllStreams)

\* The topic of the j-th message of stream n.  Odd streams have one topic;
\* in even streams the second message opens a topic whose name contains
\* the name of the first one.
Subject(n, j) ==
  IF n % 2 = 0 /\ j = 2 THEN <<Word("topic", n, 1), Word("more", 0, 0)>>
  ELSE <<Word("topic", n, 1)>>

\* The time of the j-th message in seconds: the first two messages of a
\* stream are sent within one second.
Timestamp(j) == (j + 1) \div 2

\* The j-th message of stream n; ids grow with time across all streams.
ZulipMessage(n, j) ==
  [id |-> (j - 1) * NumStreams + n,
   stream_id |-> n,
   display_recipient |-> <<Word("stream", n, 0)>>,
   subject |-> Subject(n, j),
   timestamp |-> Timestamp(j),
   sender_full_name |-> <<Word("sender", j % 2, 0)>>,
   content |-> <<Word("content", n, j)>>]

RemoteMessages(n) ==
  IF n % 4 = 0 THEN {} ELSE {ZulipMessage(n, j) : j \in 1..MsgsPerStream}

RECURSIVE SortById(_)
SortById(S) ==
  IF S = {} THEN <<>>
  ELSE LET m == CHOOSE x \in S : \A y \in S : x.id <= y.id
       IN  <<m>> \o SortById(S \ {m})

\* GET /messages with anchor, num_before = 0, num_after and the stream
\* narrow: the anchor message itself when it is in the stream, then up to
\* num_after messages after it; found_newest when the newest one is reached.
getMessages(streamId, anch, numAfter) ==
  LET after == SortById({m \in RemoteMessages(streamId) : m.id > anch})
      at    == SortById({m \in RemoteMessages(streamId) : m.id = anch})
  IN  [messages |-> at \o SubSeq(after, 1, Min(numAfter, Len(after))),
       found_newest |-> Len(after) <= numAfter]

NoChatDatabase == [exists |-> FALSE, streams |-> {}, messages |-> {}, fts |-> {},
                   indexes |-> FALSE]

\* createDatabase of the chat downloader: three tables dropped and created.
createChatDatabase == [exists |-> TRUE, streams |-> {}, messages |-> {}, fts |-> {},
                       indexes |-> FALSE]

\* Mutant of getLastMessageId: the largest id of the whole table.
getLastMessageIdAnyStream(d, streamId) ==
  IF d.messages = {} THEN 0 ELSE SetMax({m.id : m \in d.messages})

\* SELECT MAX(id) FROM messages WHERE stream_id = ?; row?.max_id || null
getLastMessageId(d, streamId) ==
  LET ids == {m.id : m \in {x \in d.messages : x.stream_id = streamId}}
  IN  IF ids = {} THEN 0 ELSE SetMax(ids)

\* INSERT OR REPLACE INTO streams; message_count takes its default 0.
insertStream(d, stream) ==
  [d EXCEPT !.streams = {x \in d.streams : x.id # stream.stream_id}
       \cup {[id |-> stream.stream_id, name |-> stream.name,
              is_web_public |-> stream.is_web_public, message_count |-> 0]}]

RECURSIVE insertStreams(_, _)
insertStreams(d, ss) ==
  IF ss = <<>> THEN d ELSE insertStreams(insertStream(d, Head(ss)), Tail(ss))

\* One row of insertMessages: INSERT OR REPLACE INTO messages, id the rowid.
insertMessage(d, msg) ==
  [d EXCEPT !.messages = {x \in d.messages : x.id # msg.id}
       \cup {[id |-> msg.id, stream_id |-> msg.stream_id,
              stream_name |-> msg.display_recipient, topic |-> msg.subject,
              sender_name |-> msg.sender_full_name, content |-> msg.content,
              timestamp |-> msg.timestamp]}]

\* insertMessages over the first n messages (n = Len(messages): the call).
RECURSIVE insertMessagesUpTo(_, _, _)
insertMessagesUpTo(d, messages, n) ==
  IF n = 0 \/ messages = <<>> THEN d
  ELSE insertMessagesUpTo(insertMessage(d, Head(messages)), Tail(messages), n - 1)

insertMessages(d, messages) == insertMessagesUpTo(d, messages, Len(messages))

\* The columns of messages_fts (content='messages', content_rowid='id').
MessageProjection(row) ==
  [stream_name |-> row.stream_name, topic |-> row.topic,
   sender_name |-> row.sender_name, content |-> row.content]

\* INSERT INTO messages_fts(messages_fts) VALUES('rebuild'): the index is
\* emptied and built again from the rows of messages.
rebuildFts(d) ==
  [d EXCEPT !.fts = {[rowid |-> row.id, cols |-> MessageProjection(row)] : row \in d.messages}]

\* UPDATE streams SET message_count = (SELECT COUNT(*) ...)
updateStreamCounts(d) ==
  [d EXCEPT !.streams =
     {[x EXCEPT !.message_count = Cardinality({m \in d.messages : m.stream_id = x.id})]
        : x \in d.streams}]

NoResult == [messages |-> <<>>, found_newest |-> FALSE]

\* Observations of one run of downloadWithApi: the streams a getMessages
\* request was issued for; whether the current stream still waits for its
\* first request, the anchor of that request and the message ids the store
\* held for the stream when it was issued; whether a failure was caught,
\* whether a 401/403 answer was received, and whether a request was issued
\* after that answer; the number of messages a resumed run found stored.
NoChatObs == [requested |-> {}, first |-> FALSE, firstAnchor |-> -1,
              firstStored |-> {}, failed |-> FALSE, authFailed |-> FALSE,
              afterAuth |-> FALSE, resumedWith |-> -1]

\* The message ids the store holds for a stream.
StoredIds(d, streamId) == {m.id : m \in {x \in d.messages : x.stream_id = streamId}}

\* Mutant of ResumeAnchor: every stream starts from the oldest message.
ResumeAnchorOldest(d, streamId, r) == Oldest

\* let anchor = "oldest"; if (resume) { lastId = getLastMessageId(...);
\* if (lastId) anchor = lastId }
ResumeAnchor(d, streamId, r) ==
  IF r /\ getLastMessageId(d, streamId) # 0
  THEN getLastMessageId(d, streamId)
  ELSE Oldest

ChatFetchFailures ==
  {[phase |-> "fetch", status |-> 401, text40x |-> FALSE],
   [phase |-> "fetch", status |-> 500, text40x |-> FALSE]}

ChatCommitFailure == [phase |-> "commit", status |-> 0, text40x |-> FALSE]

ChatRunning == pc \in {"c_streams", "c_open", "c_insert_streams", "c_stream",
                       "c_loop", "c_begin", "c_insert", "c_commit", "c_catch",
                       "c_finish"}

InitChat ==
  /\ db = NoChatDatabase
  /\ wdb = NoChatDatabase
  /\ inTxn = FALSE
  /\ pc = "idle"
  /\ resume = FALSE
  /\ total = 0
  /\ startAt = 0
  /\ response = NoResult
  /\ idx = 0
  /\ err = NoErr
  /\ outcome = "none"
  /\ progress = -1
  /\ obs = NoChatObs
  /\ last = [n |-> 0, issue |-> NoIssue, prev |-> NoIssue,
             before |-> NoDatabase, before2 |-> NoDatabase]
  /\ streamIdx = 0
  /\ anchor = Oldest
  /\ foundNewest = FALSE
  /\ request = NoRequest
  /\ result = NoRows
  /\ remote = RemoteOk

\* A run of downloadWithApi starts.
ChatStart(r) ==
  /\ pc \in {"idle", "exited", "killed"}
  /\ resume' = r
  /\ pc' = "c_streams"
  /\ response' = NoResult
  /\ err' = NoErr
  /\ outcome' = "running"
  /\ streamIdx' = 0
  /\ anchor' = Oldest
  /\ foundNewest' = FALSE
  /\ wdb' = db
  /\ obs' = NoChatObs
  /\ UNCHANGED <<db, inTxn>>
  /\ UNCHANGED issueVars
  /\ UNCHANGED queryVars
  /\ UNCHANGED remote

\* const allStreams = await getStreams(creds)
GetStreamsOk ==
  /\ pc = "c_streams"
  /\ pc' = "c_open"
  /\ UNCHANGED <<db, wdb, inTxn, resume, response, err, outcome, obs>>
  /\ UNCHANGED issueVars
  /\ UNCHANGED chatVars
  /\ UNCHANGED queryVars
  /\ UNCHANGED remote

\* getStreams throws outside any try: main() rejects.
GetStreamsFail ==
  /\ pc = "c_streams"
  /\ pc' = "exited"
  /\ outcome' = "rejected"
  /\ UNCHANGED <<db, wdb, inTxn, resume, response, err, obs>>
  /\ UNCHANGED issueVars
  /\ UNCHANGED chatVars
  /\ UNCHANGED queryVars
  /\ UNCHANGED remote

\* resume && existsSync(dbPath): openDatabaseForResume
ChatOpenForResume ==
  /\ pc = "c_open"
  /\ resume /\ db.exists
  /\ wdb' = db
  /\ obs' = [obs EXCEPT !.resumedWith = Cardinality(db.messages)]
  /\ pc' = "c_insert_streams"
  /\ UNCHANGED <<db, inTxn, resume, response, err, outcome>>
  /\ UNCHANGED issueVars
  /\ UNCHANGED chatVars
  /\ UNCHANGED queryVars
  /\ UNCHANGED remote

\* else createDatabase(dbPath)
ChatCreateFresh ==
  /\ pc = "c_open"
  /\ ~(resume /\ db.exists)
  /\ db' = createChatDatabase
  /\ wdb' = createChatDatabase
  /\ pc' = "c_insert_streams"
  /\ UNCHANGED <<inTxn, resume, response, err, outcome, obs>>
  /\ UNCHANGED issueVars
  /\ UNCHANGED chatVars
  /\ UNCHANGED queryVars
  /\ UNCHANGED remote

\* for (const stream of streams) insertStream(db, stream)  -- autocommit
InsertStreams ==
  /\ pc = "c_insert_streams"
  /\ db' = insertStreams(db, Streams)
  /\ wdb' = insertStreams(db, Streams)
  /\ streamIdx' = 1
  /\ pc' = "c_stream"
  /\ UNCHANGED <<inTxn, resume, response, err, outcome, obs, anchor, foundNewest>>
  /\ UNCHANGED issueVars
  /\ UNCHANGED queryVars
  /\ UNCHANGED remote

\* Top of the for loop over streams: the anchor of the stream.
StreamBegin ==
  /\ pc = "c_stream"
  /\ streamIdx <= Len(Streams)
  /\ anchor' = ResumeAnchor(db, Streams[streamIdx].stream_id, resume)
  /\ foundNewest' = FALSE
  /\ obs' = [obs EXCEPT !.first = TRUE]
  /\ pc' = "c_loop"
  /\ UNCHANGED <<db, wdb, inTxn, resume, response, err, outcome, streamIdx>>
  /\ UNCHANGED issueVars
  /\ UNCHANGED queryVars
  /\ UNCHANGED remote

\* The for loop over streams ends.
StreamsDone ==
  /\ pc = "c_stream"
  /\ streamIdx > Len(Streams)
  /\ pc' = "c_finish"
  /\ UNCHANGED <<db, wdb, inTxn, resume, response, err, outcome, obs>>
  /\ UNCHANGED issueVars
  /\ UNCHANGED chatVars
  /\ UNCHANGED queryVars
  /\ UNCHANGED remote

\* while (!foundNewest) is false: next stream
ChatLoopExit ==
  /\ pc = "c_loop"
  /\ foundNewest
  /\ streamIdx' = streamIdx + 1
  /\ pc' = "c_stream"
  /\ UNCHANGED <<db, wdb, inTxn, resume, response, err, outcome, obs, anchor,
                 foundNewest>>
  /\ UNCHANGED issueVars
  /\ UNCHANGED queryVars
  /\ UNCHANGED remote

\* A getMessages request is issued for the current stream at the anchor.
ChatRequested ==
  [obs EXCEPT !.requested = @ \cup {Streams[streamIdx].stream_id},
              !.first = FALSE,
              !.firstAnchor = IF obs.first THEN anchor ELSE @,
              !.firstStored = IF obs.first
                              THEN StoredIds(db, Streams[streamIdx].stream_id)
                              ELSE @,
              !.afterAuth = @ \/ obs.authFailed]

\* const result = await getMessages(creds, stream.stream_id, anchor, 1000)
ChatFetchOk ==
  /\ pc = "c_loop"
  /\ ~foundNewest
  /\ getMessages(Streams[streamIdx].stream_id, anchor, NumAfter).messages # <<>>
  /\ response' = getMessages(Streams[streamIdx].stream_id, anchor, NumAfter)
  /\ obs' = ChatRequested
  /\ pc' = "c_begin"
  /\ UNCHANGED <<db, wdb, inTxn, resume, err, outcome>>
  /\ UNCHANGED issueVars
  /\ UNCHANGED chatVars
  /\ UNCHANGED queryVars
  /\ UNCHANGED remote

\* if (result.messages.length === 0) break
ChatFetchEmpty ==
  /\ pc = "c_loop"
  /\ ~foundNewest
  /\ getMessages(Streams[streamIdx].stream_id, anchor, NumAfter).messages = <<>>
  /\ streamIdx' = streamIdx + 1
  /\ obs' = ChatRequested
  /\ pc' = "c_stream"
  /\ UNCHANGED <<db, wdb, inTxn, resume, response, err, outcome, anchor,
                 foundNewest>>
  /\ UNCHANGED issueVars
  /\ UNCHANGED queryVars
  /\ UNCHANGED remote

\* getMessages throws (apiRequest: response not ok, or the network)
ChatFetchFail(e) ==
  /\ pc = "c_loop"
  /\ ~foundNewest
  /\ err' = e
  /\ obs' = [ChatRequested EXCEPT !.failed = TRUE,
                                  !.authFailed = @ \/ e.status \in {401, 403}]
  /\ pc' = "c_catch"
  /\ UNCHANGED <<db, wdb, inTxn, resume, response, outcome>>
  /\ UNCHANGED issueVars
  /\ UNCHANGED chatVars
  /\ UNCHANGED queryVars
  /\ UNCHANGED remote

\* db.exec("BEGIN")
ChatBegin ==
  /\ pc = "c_begin"
  /\ inTxn' = TRUE
  /\ pc' = "c_insert"
  /\ UNCHANGED <<db, wdb, resume, response, err, outcome, obs>>
  /\ UNCHANGED issueVars
  /\ UNCHANGED chatVars
  /\ UNCHANGED queryVars
  /\ UNCHANGED remote

\* insertMessages(db, result.messages)
ChatInsertOk ==
  /\ pc = "c_insert"
  /\ wdb' = insertMessages(wdb, response.messages)
  /\ pc' = "c_commit"
  /\ UNCHANGED <<db, inTxn, resume, response, err, outcome, obs>>
  /\ UNCHANGED issueVars
  /\ UNCHANGED chatVars
  /\ UNCHANGED queryVars
  /\ UNCHANGED remote

\* insertMessages throws after n rows were written.
ChatInsertFail(n) ==
  /\ pc = "c_insert"
  /\ n < Len(response.messages)
  /\ wdb' = insertMessagesUpTo(wdb, response.messages, n)
  /\ err' = ChatCommitFailure
  /\ obs' = [obs EXCEPT !.failed = TRUE]
  /\ pc' = "c_catch"
  /\ UNCHANGED <<db, inTxn, resume, response, outcome>>
  /\ UNCHANGED issueVars
  /\ UNCHANGED chatVars
  /\ UNCHANGED queryVars
  /\ UNCHANGED remote

\* db.exec("COMMIT"); anchor = id of the last message; foundNewest = found_newest
ChatCommit ==
  /\ pc = "c_commit"
  /\ db' = wdb
  /\ inTxn' = FALSE
  /\ anchor' = response.messages[Len(response.messages)].id
  /\ foundNewest' = response.found_newest
  /\ pc' = "c_loop"
  /\ UNCHANGED <<wdb, resume, response, err, outcome, obs, streamIdx>>
  /\ UNCHANGED issueVars
  /\ UNCHANGED queryVars
  /\ UNCHANGED remote

\* catch: db.exec("ROLLBACK") with a transaction open; break
ChatCatchRollback ==
  /\ pc = "c_catch"
  /\ inTxn \/ ~RollbackOutsideTxnThrows
  /\ wdb' = Rollback(wdb, db)
  /\ inTxn' = FALSE
  /\ streamIdx' = streamIdx + 1
  /\ pc' = "c_stream"
  /\ UNCHANGED <<db, resume, response, err, outcome, obs, anchor, foundNewest>>
  /\ UNCHANGED issueVars
  /\ UNCHANGED queryVars
  /\ UNCHANGED remote

\* catch: db.exec("ROLLBACK") with no transaction open throws; the error
\* leaves both loops and main() rejects.
ChatCatchRollbackThrows ==
  /\ pc = "c_catch"
  /\ ~inTxn /\ RollbackOutsideTxnThrows
  /\ pc' = "exited"
  /\ outcome' = "rollback_error"
  /\ UNCHANGED <<db, wdb, inTxn, resume, response, err, obs>>
  /\ UNCHANGED issueVars
  /\ UNCHANGED chatVars
  /\ UNCHANGED queryVars
  /\ UNCHANGED remote

\* After the loops: rebuild of messages_fts, createIndexes, updateStreamCounts
ChatFinish ==
  /\ pc = "c_finish"
  /\ db' = [updateStreamCounts(rebuildFts(db)) EXCEPT !.indexes = TRUE]
  /\ wdb' = db'
  /\ outcome' = "done"
  /\ pc' = "exited"
  /\ UNCHANGED <<inTxn, resume, response, err, obs>>
  /\ UNCHANGED issueVars
  /\ UNCHANGED chatVars
  /\ UNCHANGED queryVars
  /\ UNCHANGED remote

\* The process is killed: an open transaction is never committed.
ChatKill ==
  /\ ChatRunning
  /\ pc' = "killed"
  /\ wdb' = db
  /\ inTxn' = FALSE
  /\ outcome' = "killed"
  /\ UNCHANGED <<db, resume, response, err, obs>>
  /\ UNCHANGED issueVars
  /\ UNCHANGED chatVars
  /\ UNCHANGED queryVars
  /\ UNCHANGED remote

\* The steps of a run of downloadWithApi once it has started.
ChatSteps ==
  \/ GetStreamsOk
  \/ GetStreamsFail
  \/ ChatOpenForResume
  \/ ChatCreateFresh
  \/ InsertStreams
  \/ StreamBegin
  \/ StreamsDone
  \/ ChatLoopExit
  \/ ChatFetchOk
  \/ ChatFetchEmpty
  \/ \E e \in ChatFetchFailures : ChatFetchFail(e)
  \/ ChatBegin
  \/ ChatInsertOk
  \/ \E n \in 0..NumAfter : ChatInsertFail(n)
  \/ ChatCommit
  \/ ChatCatchRollback
  \/ ChatCatchRollbackThrows
  \/ ChatFinish
  \/ ChatKill

NextChat ==
  \/ \E r \in BOOLEAN : ChatStart(r)
  \/ ChatSteps

SpecChat == InitChat /\ [][NextChat]_vars

-----------------------------------------------------------------------------
(* downloadWithApi against a server whose answer may stay at the anchor *)

\* An answer that does not go beyond the anchor and does not report the
\* newest message: the anchor message alone, found_newest false.
StaleAnswer(streamId, anch) ==
  [messages |-> SortById({m \in RemoteMessages(streamId) : m.id = anch}),
   found_newest |-> FALSE]

\* const result = await getMessages(...): the server answers with the
\* anchor message alone and found_newest false.
ChatFetchStale ==
  /\ pc = "c_loop"
  /\ ~foundNewest
  /\ StaleAnswer(Streams[streamIdx].stream_id, anchor).messages # <<>>
  /\ response' = StaleAnswer(Streams[streamIdx].stream_id, anchor)
  /\ obs' = ChatRequested
  /\ pc' = "c_begin"
  /\ UNCHANGED <<db, wdb, inTxn, resume, err, outcome>>
  /\ UNCHANGED issueVars
  /\ UNCHANGED chatVars
  /\ UNCHANGED queryVars
  /\ UNCHANGED remote

NextStaleServer == NextChat \/ ChatFetchStale

SpecStaleServer == InitChat /\ [][NextStaleServer]_vars

-----------------------------------------------------------------------------
(* Both downloaders, each run against the store of its own corpus *)

IssueStore(d) == "issues" \in DOMAIN d
ChatStore(d)  == "messages" \in DOMAIN d

InitFetchers == Init \/ InitChat

NextFetchers ==
  \/ \E r \in BOOLEAN : IssueStore(db) /\ StartRun(r)
  \/ \E r \in BOOLEAN : ChatStore(db) /\ ChatStart(r)
  \/ IssueSteps
  \/ ChatSteps

SpecFetchers == InitFetchers /\ [][NextFetchers]_vars

-----------------------------------------------------------------------------
(* search() of the issue search tool *)

MaxLimit    == 2   \* largest digit of a --limit argument
MaxFilters  == 2   \* structured filters supplied in one call
SearchCalls == 3   \* SpecSearch: insertIssue calls that build the store

\* A --limit argument: an optional minus sign, its leading decimal digits,
\* and whether other characters follow them ("abc": no digit, rest).
LimitArgs ==
  {[neg |-> b, digits |-> ds, rest |-> r] :
     b \in BOOLEAN, ds \in {<<>>} \cup {<<d>> : d \in 0..MaxLimit}, r \in BOOLEAN}

RECURSIVE DecimalValue(_)
DecimalValue(ds) ==
  IF ds = <<>> THEN 0 ELSE 10 * DecimalValue(SubSeq(ds, 1, Len(ds) - 1)) + ds[Len(ds)]

\* parseInt(values.limit, 10): NaN without a leading digit; what follows
\* the digits is ignored.
parseInt(text) ==
  IF text.digits = <<>> THEN NaN
  ELSE Int32(IF text.neg THEN 0 - DecimalValue(text.digits) ELSE DecimalValue(text.digits))

FilterNames == {"ballot", "status", "version", "resource", "workGroup", "impact"}

\* The JSON path each filter of search() tests.
FilterColumn ==
  [ballot |-> "selected_ballot", status |-> "status", version |-> "raised_in_version",
   resource |-> "related_artifacts", workGroup |-> "work_group",
   impact |-> "change_impact"]

\* The texts a caller passes for each filter ("" for --status: not supplied).
FilterValues ==
  [ballot |-> {<<Word("number", 1, 0)>>},
   status |-> {<<>>, <<Word("status", 0, 0)>>},
   version |-> {<<Word("version", 1, 0)>>},
   resource |-> {<<Word("artifact", 1, 1)>>},
   workGroup |-> {<<Word("wg", 2, 0)>>},
   impact |-> {<<Word("impact", 1, 0)>>}]

\* Every SearchFilters object with at most MaxFilters structured filters.
FilterSets ==
  UNION {[N -> UNION {FilterValues[f] : f \in N}] :
           N \in {M \in SUBSET FilterNames : Cardinality(M) <= MaxFilters}}

SearchFilters == {fs \in FilterSets : \A f \in DOMAIN fs : fs[f] \in FilterValues[f]}

\* FTS5 query expressions.
Term(w) == [op |-> "term", w |-> w]

And(l, r) == [op |-> "and", l |-> l, r |-> r]

Not(l, r) == [op |-> "not", l |-> l, r |-> r]

Queries ==
  {NoQuery, Term(Alpha), And(Term(Alpha), Term(Beta)), Not(Term(Beta), Term(Alpha)),
   Term(Word("summary", 1, 1))}

\* filters.ballot.toUpperCase().startsWith("BALLOT-") ? ... : `BALLOT-${...}`
BallotKey(pattern) ==
  [i \in 1..Len(pattern) |->
     IF pattern[i][1] = "number" THEN Word("ballot", pattern[i][2], pattern[i][3])
     ELSE pattern[i]]

Sep == Word("sep", 0, 0)

\* The text of a JSON value as json_extract returns it: a string as it is,
\* an array as its JSON text (elements apart), an object as JSON text.
RECURSIVE Render(_)
Render(val) ==
  IF val.t = "str" THEN val.v
  ELSE IF val.t = "arr" THEN
    IF val.v = <<>> THEN <<Sep>>
    ELSE <<Sep>> \o Render(Head(val.v)) \o Render(Arr(Tail(val.v)))
  ELSE <<Word("object", 0, 0)>>

SqlNull == [null |-> TRUE, text |-> <<>>]

\* json_extract(i.data, '$.<col>'): NULL for a missing path or a JSON null.
JsonExtract(data, col) ==
  IF col \notin DOMAIN data THEN SqlNull
  ELSE IF data[col].t \in {"null", "undef"} THEN SqlNull
  ELSE [null |-> FALSE, text |-> Render(data[col])]

\* x LIKE '%pattern%' (x NULL: not true)
Like(x, pattern) ==
  /\ ~x.null
  /\ \E i \in 0..(Len(x.text) - Len(pattern)) :
       SubSeq(x.text, i + 1, i + Len(pattern)) = pattern

\* x = $impact (x NULL: not true)
SqlEquals(x, pattern) == ~x.null /\ x.text = pattern

\* The filters that are set: if (filters.status) ...
Supplied(filters) == {f \in DOMAIN filters : filters[f] # <<>>}

\* One element of conditions[], evaluated on the data of a row.
Condition(f, filters, data) ==
  IF f = "impact" THEN SqlEquals(JsonExtract(data, FilterColumn[f]), filters[f])
  ELSE IF f = "ballot" THEN Like(JsonExtract(data, FilterColumn[f]), BallotKey(filters[f]))
  ELSE Like(JsonExtract(data, FilterColumn[f]), filters[f])

\* Mutant of JoinConditions: conditions.join(" OR ")
JoinConditionsOr(filters, data) ==
  Supplied(filters) = {} \/ \E f \in Supplied(filters) : Condition(f, filters, data)

\* conditions.join(" AND "); no WHERE clause without conditions
JoinConditions(filters, data) ==
  \A f \in Supplied(filters) : Condition(f, filters, data)

\* The tokens of an index entry, over all its columns.
EntryTokens(cols) ==
  {Word("key", cols.key[1], 0)}
    \cup UNION {{cols[c][i] : i \in 1..Len(cols[c])} : c \in FtsColumns \ {"key"}}

\* issues_fts MATCH $query
RECURSIVE Matches(_, _)
Matches(cols, q) ==
  IF q.op = "term" THEN q.w \in EntryTokens(cols)
  ELSE IF q.op = "and" THEN Matches(cols, q.l) /\ Matches(cols, q.r)
  ELSE IF q.op = "not" THEN Matches(cols, q.l) /\ ~Matches(cols, q.r)
  ELSE FALSE

\* FROM issues_fts fts JOIN issues i ON i.rowid = fts.rowid
\* WHERE issues_fts MATCH $query AND <conditions>
FtsRows(d, filters, q) ==
  {[fts |-> p[1].rowid, i |-> p[2]] :
     p \in {x \in d.fts \X d.issues :
              /\ x[2].rowid = x[1].rowid
              /\ Matches(x[1].cols, q)
              /\ JoinConditions(filters, x[2].data)}}

\* FROM issues i WHERE <conditions>
PlainRows(d, filters) ==
  {[fts |-> 0, i |-> i] : i \in {y \in d.issues : JoinConditions(filters, y.data)}}

\* The position of a row's updated_at in string order; NULL sorts lowest.
UpdatedKey(row) ==
  LET x == JsonExtract(row.i.data, "updated_at")
  IN  IF x.null THEN 0 - 1 ELSE x.text[1][2]

\* Every order of the rows of S.
Orders(S) ==
  {s \in [1..Cardinality(S) -> S] : \A x \in S : \E i \in 1..Cardinality(S) : s[i] = x}

\* Mutant of OrderByUpdated: ascending.
OrderByUpdatedAsc(S) ==
  {s \in Orders(S) : \A i, j \in 1..Len(s) : i < j => UpdatedKey(s[i]) <= UpdatedKey(s[j])}

\* ORDER BY json_extract(i.data, '$.updated_at') DESC: rows with equal
\* values come in any order.
OrderByUpdated(S) ==
  {s \in Orders(S) : \A i, j \in 1..Len(s) : i < j => UpdatedKey(s[i]) >= UpdatedKey(s[j])}

\* ORDER BY fts.rank: the order is the index's own.
OrderByRank(S) == Orders(S)

\* Mutant of Limit: one row fewer.
LimitShort(s, limit) ==
  IF limit.n < 0 THEN s ELSE SubSeq(s, 1, Min(limit.n, Len(s)) - 1)

\* LIMIT $limit: no bound when the value is negative.
Limit(s, limit) ==
  IF limit.n < 0 THEN s ELSE SubSeq(s, 1, Min(limit.n, Len(s)))

\* What search() can return: db.query(sql).all(params).  A limit that is
\* not an integer makes the statement fail (datatype mismatch).
search(d, filters, q, limit) ==
  IF limit.nan THEN {[ok |-> FALSE, rows |-> <<>>]}
  ELSE LET ordered == IF q # NoQuery THEN OrderByRank(FtsRows(d, filters, q))
                      ELSE OrderByUpdated(PlainRows(d, filters))
       IN  {[ok |-> TRUE, rows |-> [k \in 1..Len(Limit(s, limit)) |-> s[k].i.data]]
              : s \in ordered}

\* BEGIN; insertIssue(db, issue); COMMIT  -- while the store is being built
SearchUpsert(issue) ==
  /\ last.n < SearchCalls
  /\ UpsertCall(issue)

\* main() of the search tool parses its arguments and calls search().
Search(filters, q, text) ==
  /\ pc = "upsert"
  /\ request' = [filters |-> filters, query |-> q, limit |-> parseInt(text)]
  /\ result' \in search(db, filters, q, parseInt(text))
  /\ pc' = "searched"
  /\ UNCHANGED <<db, wdb, inTxn, resume, response, err, outcome, obs>>
  /\ UNCHANGED issueVars
  /\ UNCHANGED chatVars
  /\ UNCHANGED remote

\* db.close(): the call is over.
SearchClose ==
  /\ pc = "searched"
  /\ request' = NoRequest
  /\ result' = NoRows
  /\ pc' = "upsert"
  /\ UNCHANGED <<db, wdb, inTxn, resume, response, err, outcome, obs>>
  /\ UNCHANGED issueVars
  /\ UNCHANGED chatVars
  /\ UNCHANGED remote

NextSearch ==
  \/ \E issue \in UpsertInputs : SearchUpsert(issue)
  \/ \E filters \in SearchFilters, q \in Queries, text \in LimitArgs :
       Search(filters, q, text)
  \/ SearchClose

SpecSearch == InitUpsert /\ [][NextSearch]_vars

-----------------------------------------------------------------------------
(* execSql() of the search tools: the raw sql command *)

SqlCalls == 2   \* insertIssue calls that build the store the command reads

\* Mutant of getDb: the connection is opened without the readonly flag.
getDbWritable == [readonly |-> FALSE]

\* new Database(DB_PATH, { readonly: true })
getDb == [readonly |-> TRUE]

\* Statements a caller can pass to the sql command: reads, and writes to the
\* table of documents and to the index.
SqlStatements ==
  {[op |-> "select_count"],
   [op |-> "select_match", q |-> Term(Alpha)],
   [op |-> "delete_issues"],
   [op |-> "delete_index"],
   [op |-> "insert_issue", issue |-> RawIssue(NumKeys + 1, 1)],
   [op |-> "drop_tables"]}

IsWrite(stmt) == stmt.op \in {"delete_issues", "delete_index", "insert_issue", "drop_tables"}

\* What a statement that writes does to the database.
Write(d, stmt) ==
  IF stmt.op = "delete_issues" THEN [d EXCEPT !.issues = {}]
  ELSE IF stmt.op = "delete_index" THEN [d EXCEPT !.fts = {}]
  ELSE IF stmt.op = "insert_issue"
    THEN InsertOrReplaceIssue(d, stmt.issue.key, JSONStringify(transformIssue(stmt.issue)))
  ELSE IF stmt.op = "drop_tables" THEN [d EXCEPT !.issues = {}, !.fts = {}, !.indexes = FALSE]
  ELSE d

\* The rows a statement that reads returns (here: their number).
Read(d, stmt) ==
  IF stmt.op = "select_count" THEN <<Cardinality(d.issues)>>
  ELSE IF stmt.op = "select_match"
    THEN <<Cardinality({e \in d.fts : Matches(e.cols, stmt.q)})>>
  ELSE <<>>

\* db.query(query).all() on a connection: a statement that writes fails on
\* a read-only connection ("attempt to write a readonly database").
Query(conn, d, stmt) ==
  IF IsWrite(stmt) /\ conn.readonly
  THEN [d |-> d, res |-> [ok |-> FALSE, rows |-> <<>>]]
  ELSE [d |-> Write(d, stmt), res |-> [ok |-> TRUE, rows |-> Read(d, stmt)]]

\* BEGIN; insertIssue(db, issue); COMMIT  -- while the store is being built
SqlUpsert(issue) ==
  /\ last.n < SqlCalls
  /\ UpsertCall(issue)

\* execSql(query, json): getDb(), db.query(query).all() inside try/catch
ExecSql(stmt) ==
  /\ pc = "upsert"
  /\ request' = [sql |-> stmt]
  /\ result' = Query(getDb, db, stmt).res
  /\ db' = Query(getDb, db, stmt).d
  /\ wdb' = Query(getDb, db, stmt).d
  /\ pc' = "searched"
  /\ UNCHANGED <<inTxn, resume, response, err, outcome, obs>>
  /\ UNCHANGED issueVars
  /\ UNCHANGED chatVars
  /\ UNCHANGED remote

\* The search command with a full-text expression and no filter.
NextSql ==
  \/ \E issue \in UpsertInputs : SqlUpsert(issue)
  \/ \E q \in Queries, text \in LimitArgs : Search(<<>>, q, text)
  \/ \E stmt \in SqlStatements : ExecSql(stmt)
  \/ SearchClose

SpecSql == InitUpsert /\ [][NextSql]_vars

-----------------------------------------------------------------------------
(* getThread() of the chat search tool, reading while downloadWithApi runs *)

SnapshotLimit == 2   \* effectiveLimit of a snapshot (1000 in the source, scaled down)

\* The stream and topic arguments a caller passes.
ThreadArgs ==
  {[stream |-> <<Word("stream", n, 0)>>, topic |-> <<Word("topic", n, 1)>>]
     : n \in 1..NumStreams}

\* WHERE stream_name LIKE $stream AND topic LIKE $topic
ThreadRows(d, streamName, topic) ==
  {m \in d.messages :
     /\ Like([null |-> FALSE, text |-> m.stream_name], streamName)
     /\ Like([null |-> FALSE, text |-> m.topic], topic)}

\* ORDER BY timestamp ASC: rows of equal timestamp come in any order.
OrderByTimestamp(S) ==
  {s \in Orders(S) : \A i, j \in 1..Len(s) : i < j => s[i].timestamp <= s[j].timestamp}

\* What getThread can return: db.query(...).all(...)
getThread(d, streamName, topic, limit, fullSnapshot) ==
  LET effectiveLimit == IF fullSnapshot THEN Int32(SnapshotLimit) ELSE limit
  IN  IF effectiveLimit.nan THEN {[ok |-> FALSE, rows |-> <<>>]}
      ELSE {[ok |-> TRUE, rows |-> Limit(s, effectiveLimit)]
              : s \in OrderByTimestamp(ThreadRows(d, streamName, topic))}

\* main() of the chat search tool: thread or snapshot <stream> <topic>,
\* on a read-only connection to the committed database.
Thread(args, text, fullSnapshot) ==
  /\ db.exists
  /\ request = NoRequest
  /\ request' = [stream |-> args.stream, topic |-> args.topic,
                 limit |-> parseInt(text), fullSnapshot |-> fullSnapshot]
  /\ result' \in getThread(db, args.stream, args.topic, parseInt(text), fullSnapshot)
  /\ UNCHANGED <<db, wdb, inTxn, pc, resume, response, err, outcome, obs>>
  /\ UNCHANGED issueVars
  /\ UNCHANGED chatVars
  /\ UNCHANGED remote

\* db.close(): the call is over.
ThreadClose ==
  /\ request # NoRequest
  /\ request' = NoRequest
  /\ result' = NoRows
  /\ UNCHANGED <<db, wdb, inTxn, pc, resume, response, err, outcome, obs>>
  /\ UNCHANGED issueVars
  /\ UNCHANGED chatVars
  /\ UNCHANGED remote

\* While a reader's call is open the downloader is not scheduled here:
\* the reader sees one committed state.
NextThread ==
  \/ (request = NoRequest /\ NextChat)
  \/ \E args \in ThreadArgs, text \in LimitArgs, fullSnapshot \in BOOLEAN :
       Thread(args, text, fullSnapshot)
  \/ ThreadClose

SpecThread == InitChat /\ [][NextThread]_vars

-----------------------------------------------------------------------------
(* transformIssue over every shape of a raw field value *)

MaxLen   == 2   \* elements of a raw array
MaxDepth == 2   \* nesting of arrays and option objects in a raw value

\* Raw values that are not made of other values: null, "", a string, a
\* status-like object, a user, an object of no known pattern, and a
\* reference to another issue with and without its fields.
RawAtoms ==
  {Null, Str(<<>>), Str(<<Word("text", 0, 0)>>),
   Obj([id |-> Str(<<Word("id", 0, 0)>>), name |-> Str(<<Word("name", 0, 0)>>)]),
   Obj([displayName |-> Str(<<Word("person", 0, 0)>>), name |-> Str(<<Word("user", 0, 0)>>)]),
   Obj([id |-> Str(<<Word("id", 0, 0)>>)]),
   IssueRef(2, TRUE), IssueRef(2, FALSE)}

\* Arrays of up to MaxLen values of S, and option objects holding one.
Nest(S) ==
  S \cup {Arr(xs) : xs \in UNION {[1..n -> S] : n \in 0..MaxLen}}
    \cup {Opt(x) : x \in S}

RECURSIVE RawValues(_)
RawValues(depth) == IF depth = 0 THEN RawAtoms ELSE Nest(RawValues(depth - 1))

\* The custom fields whose raw value varies.
TransformFields == {"customfield_11302", "customfield_14905", "customfield_14909"}

\* Issue 1 with one custom field holding the given raw value.
RawWith(field, val) == [RawIssue(1, 1) EXCEPT !.fields[field] = val]

TransformInputs ==
  {RawWith(field, val) : field \in TransformFields, val \in RawValues(MaxDepth)}

\* BEGIN; insertIssue(db, raw); COMMIT on an empty store
TransformCall(raw) ==
  /\ last.n = 0
  /\ UpsertCall(raw)

NextTransform == \E raw \in TransformInputs : TransformCall(raw)

SpecTransform == InitUpsert /\ [][NextTransform]_vars

-----------------------------------------------------------------------------
(* The issue store with one column per field and a comments table           *)
(* (jira/download.ts): any sequence of insertIssue calls                    *)

\* createDatabase: the tables issues and comments, empty; seq is the
\* largest id AUTOINCREMENT has given out in comments.
createColumnDatabase == [exists |-> TRUE, issues |-> {}, comments |-> {}, seq |-> 0]

\* INSERT OR REPLACE INTO issues VALUES (...): the row of the key is
\* replaced; $comment_count: comments.length
InsertOrReplaceRow(d, issue, comments) ==
  [d EXCEPT !.issues =
     {r \in @ : r.key # issue.key}
       \cup {[key |-> issue.key,
              summary |-> TextOf(OrElse(issue.fields.summary, Str(<<>>))),
              updated_at |-> TextOf(OrElse(issue.fields.updated, Str(<<>>))),
              comment_count |-> Len(comments)]}]

\* Mutant of DeleteComments: the comments of the key stay.
DeleteCommentsNone(d, key) == d

\* DELETE FROM comments WHERE issue_key = $key
DeleteComments(d, key) ==
  [d EXCEPT !.comments = {c \in @ : c.issue_key # key}]

\* for (const comment of comments) insertComment.run(...): each row takes
\* the next id.
InsertComments(d, key, comments) ==
  [d EXCEPT !.comments =
     @ \cup {[id |-> d.seq + i, issue_key |-> key,
              body |-> TextOf(OrElse(comments[i].body, Str(<<>>)))]
               : i \in 1..Len(comments)},
            !.seq = @ + Len(comments)]

\* insertIssue of jira/download.ts
insertIssueColumns(d, issue) ==
  LET comments == issue.fields.comment   \* f.comment?.comments || []
  IN  InsertComments(DeleteComments(InsertOrReplaceRow(d, issue, comments), issue.key),
                     issue.key, comments)

InitColumns ==
  /\ db = createColumnDatabase
  /\ wdb = createColumnDatabase
  /\ inTxn = FALSE
  /\ pc = "upsert"
  /\ resume = FALSE
  /\ total = 0
  /\ startAt = 0
  /\ response = <<>>
  /\ idx = 0
  /\ err = NoErr
  /\ outcome = "running"
  /\ progress = -1
  /\ obs = NoObs
  /\ last = [n |-> 0, issue |-> NoIssue, prev |-> NoIssue,
             before |-> createColumnDatabase, before2 |-> createColumnDatabase]
  /\ streamIdx = 0
  /\ anchor = 0
  /\ foundNewest = FALSE
  /\ request = NoRequest
  /\ result = NoRows
  /\ remote = RemoteOk

\* BEGIN; insertIssue(db, issue); COMMIT
ColumnUpsert(issue) ==
  /\ pc = "upsert"
  /\ last.n < MaxCalls
  /\ db' = insertIssueColumns(db, issue)
  /\ wdb' = db'
  /\ last' = [n |-> last.n + 1, issue |-> issue, prev |-> last.issue,
              before |-> db, before2 |-> last.before]
  /\ UNCHANGED <<inTxn, pc, resume, total, startAt, response, idx, err,
                 outcome, progress, obs>>
  /\ UNCHANGED chatVars
  /\ UNCHANGED queryVars
  /\ UNCHANGED remote

NextColumns == \E issue \in UpsertInputs : ColumnUpsert(issue)

SpecColumns == InitColumns /\ [][NextColumns]_vars

-----------------------------------------------------------------------------
(* transformIssue: the people and the nested lists of a raw record whose   *)
(* optional fields may be missing, null or of an unexpected shape           *)

\* A TypeError leaves the function.
Thrown == [t |-> "throw", v |-> <<>>]

Nullish(val) == val.t \in {"null", "undef"}

\* val?.length > 0, val.length > 0: undefined > 0 is false
LengthPositive(val) == val.t \in {"arr", "str"} /\ Len(val.v) > 0

\* val.map(el => fn(el)) where fn reads properties of el: a TypeError when
\* val has no map method (it is not an array) or an element is null or
\* undefined.
MapElements(val, fn(_)) ==
  IF val.t # "arr" THEN Thrown
  ELSE IF \E k \in 1..Len(val.v) : Nullish(val.v[k]) THEN Thrown
  ELSE Arr([k \in 1..Len(val.v) |-> fn(val.v[k])])

\* arr.filter(keep) behind a map that may have thrown or been skipped.
FilterElements(val, keep(_)) ==
  IF val.t = "arr" THEN Arr(SelectSeq(val.v, keep)) ELSE val

\* Mutant of componentNames: f.components.map(...) with no optional chain.
componentNamesUnchained(components) ==
  FilterElements(MapElements(components, LAMBDA c : Get(c, "name")), Truthy)

\* f.components?.map((c) => c.name).filter(Boolean): undefined when
\* components is null or undefined.
componentNames(components) ==
  IF Nullish(components) THEN Undef
  ELSE FilterElements(MapElements(components, LAMBDA c : Get(c, "name")), Truthy)

\* doc.components, with: if (doc.components?.length === 0) doc.components = null
docComponents(f) ==
  LET names == componentNames(Get(f, "components"))
  IN  IF names.t = "arr" /\ Len(names.v) = 0 THEN Null ELSE names

\* if (f.attachment?.length > 0) doc.attachments = f.attachment.map(...)
docAttachments(f) ==
  IF LengthPositive(Get(f, "attachment")) THEN
    MapElements(Get(f, "attachment"),
                LAMBDA a : Obj([filename |-> Get(a, "filename"), size |-> Get(a, "size"),
                                url |-> Get(a, "content"), created |-> Get(a, "created")]))
  ELSE Undef

\* const comments = f.comment?.comments || []; if (comments.length > 0) ...
docComments(f) ==
  LET comments == OrElse(GetOpt(Get(f, "comment"), "comments"), Arr(<<>>))
  IN  IF LengthPositive(comments) THEN
        MapElements(comments,
                    LAMBDA c : Obj([author |-> extractValue(Get(c, "author")),
                                    body |-> Get(c, "body"),
                                    created_at |-> Get(c, "created")]))
      ELSE Undef

\* if (f.subtasks?.length > 0) doc.subtasks = f.subtasks.map(...)
docSubtasks(f) ==
  IF LengthPositive(Get(f, "subtasks")) THEN
    MapElements(Get(f, "subtasks"),
                LAMBDA t : Obj([key |-> Get(t, "key"),
                                summary |-> GetOpt(Get(t, "fields"), "summary"),
                                status |-> GetOpt(GetOpt(Get(t, "fields"), "status"), "name")]))
  ELSE Undef

\* One element of doc.issue_links.
IssueLink(link) ==
  LET target    == OrElse(Get(link, "outwardIssue"), Get(link, "inwardIssue"))
      direction == IF Truthy(Get(link, "outwardIssue")) THEN "outward" ELSE "inward"
  IN  Obj([relation |-> GetOpt(Get(link, "type"), direction),
           direction |-> Str(<<Word(direction, 0, 0)>>),
           target_key |-> GetOpt(target, "key"),
           target_summary |-> GetOpt(GetOpt(target, "fields"), "summary"),
           target_status |-> GetOpt(GetOpt(GetOpt(target, "fields"), "status"), "name")])

\* if (f.issuelinks?.length > 0) { doc.issue_links = f.issuelinks.map(...)
\*   .filter(l => l.target_key); if (length === 0) doc.issue_links = undefined }
docIssueLinks(f) ==
  IF LengthPositive(Get(f, "issuelinks")) THEN
    LET links == FilterElements(MapElements(Get(f, "issuelinks"), IssueLink),
                                LAMBDA l : Truthy(Get(l, "target_key")))
    IN  IF links.t = "arr" /\ Len(links.v) = 0 THEN Undef ELSE links
  ELSE Undef

\* The people and the nested lists of the document transformIssue builds;
\* the call throws when one of its statements does.
transformIssueNested(raw) ==
  LET f == raw.fields
      doc == [reporter |-> extractValue(Get(f, "reporter")),
              assignee |-> extractValue(Get(f, "assignee")),
              creator |-> extractValue(Get(f, "creator")),
              components |-> docComponents(f),
              attachments |-> docAttachments(f),
              comments |-> docComments(f),
              subtasks |-> docSubtasks(f),
              issue_links |-> docIssueLinks(f)]
  IN  IF \E g \in DOMAIN doc : doc[g] = Thrown
      THEN [ok |-> FALSE, doc |-> <<>>]
      ELSE [ok |-> TRUE, doc |-> doc]

\* A user as the remote API nests it.
User(k) ==
  Obj([displayName |-> Str(<<Word("person", k, 0)>>),
       name |-> Str(<<Word("user", k, 0)>>),
       emailAddress |-> Str(<<Word("email", k, 0)>>),
       active |-> Str(<<Word("true", 0, 0)>>)])

\* The same user without a handle, and without a display name.
UserNoHandle(k) ==
  Obj([displayName |-> Str(<<Word("person", k, 0)>>),
       emailAddress |-> Str(<<Word("email", k, 0)>>),
       active |-> Str(<<Word("false", 0, 0)>>)])

UserNoDisplayName(k) ==
  Obj([name |-> Str(<<Word("user", k, 0)>>),
       emailAddress |-> Str(<<Word("email", k, 0)>>),
       active |-> Str(<<Word("false", 0, 0)>>)])

\* What a person field holds: a user, a user lacking one of its names,
\* null, or nothing (Undef: the field is missing).
People == {User(1), UserNoHandle(1), UserNoDisplayName(1), Null, Undef}

CommentOf(person) ==
  Obj([author |-> person, body |-> Str(<<Word("comment", 1, 1)>>),
       created |-> Str(<<Word("time", 1, 0)>>)])

\* Values of the comment field that keep to the shape of the API, with
\* every optional part missing or null in turn.
CommentValues ==
  {Undef, Null, Obj([total |-> Str(<<Word("0", 0, 0)>>)]),
   Obj([comments |-> Null]), Obj([comments |-> Arr(<<>>)])}
    \cup {Obj([comments |-> Arr(<<CommentOf(person)>>)]) : person \in People}

ComponentValues ==
  {Undef, Null, Arr(<<>>),
   Arr(<<Obj([id |-> Str(<<Word("id", 1, 0)>>), name |-> Str(<<Word("component", 1, 0)>>)]),
         Obj([id |-> Str(<<Word("id", 2, 0)>>)])>>)}

AttachmentValues ==
  {Undef, Null,
   Arr(<<Obj([filename |-> Str(<<Word("file", 1, 0)>>), content |-> Str(<<Word("url", 1, 0)>>)])>>)}

SubtaskValues ==
  {Undef, Null,
   Arr(<<IssueRef(2, TRUE), IssueRef(3, FALSE),
         Obj([key |-> Str(<<Word("key", 4, 0)>>), fields |-> Null])>>)}

IssueLinkValues ==
  {Undef, Null,
   Arr(<<Obj([type |-> Obj([outward |-> Str(<<Word("relates", 0, 0)>>)]),
              outwardIssue |-> IssueRef(2, TRUE)]),
         Obj([inwardIssue |-> IssueRef(3, FALSE)]),
         Obj([type |-> Null])>>),
   Arr(<<Obj([id |-> Str(<<Word("id", 1, 0)>>)])>>)}

\* A list with a null element, and a string where a list is expected.
NullElement == Arr(<<Null>>)

NotAList == Str(<<Word("text", 0, 0)>>)

RecordWith(reporter, assignee, comment, components, attachment, subtasks, issuelinks) ==
  [key |-> 1,
   fields |-> Obj([reporter |-> reporter, assignee |-> assignee, creator |-> User(2),
                   comment |-> comment, components |-> components,
                   attachment |-> attachment, subtasks |-> subtasks,
                   issuelinks |-> issuelinks])]

\* Raw records that have a key and a fields mapping: every optional field
\* present, missing or null; and the same with a list that holds a null
\* element or is no list.
RecordInputs ==
  {RecordWith(reporter, assignee, comment, components, attachment, subtasks, issuelinks) :
     reporter \in People, assignee \in {User(3), Null},
     comment \in CommentValues \cup {Obj([comments |-> NullElement])},
     components \in ComponentValues \cup {NullElement, NotAList},
     attachment \in AttachmentValues \cup {NullElement},
     subtasks \in SubtaskValues \cup {NullElement},
     issuelinks \in IssueLinkValues \cup {NullElement}}

\* The optional fields of the record are missing, null, or of the shape of
\* the API.
OptionalFieldsMissingOrNull(raw) ==
  LET f == raw.fields
  IN  /\ Get(f, "comment") \in CommentValues
      /\ Get(f, "components") \in ComponentValues
      /\ Get(f, "attachment") \in AttachmentValues
      /\ Get(f, "subtasks") \in SubtaskValues
      /\ Get(f, "issuelinks") \in IssueLinkValues

NoCall == [ok |-> TRUE, doc |-> <<>>]

InitRecord ==
  /\ db = createDatabase
  /\ wdb = createDatabase
  /\ inTxn = FALSE
  /\ pc = "raw"
  /\ resume = FALSE
  /\ total = 0
  /\ startAt = 0
  /\ response = <<>>
  /\ idx = 0
  /\ err = NoErr
  /\ outcome = "running"
  /\ progress = -1
  /\ obs = NoObs
  /\ last = [n |-> 0, issue |-> NoIssue, prev |-> NoIssue,
             before |-> createDatabase, before2 |-> createDatabase]
  /\ streamIdx = 0
  /\ anchor = 0
  /\ foundNewest = FALSE
  /\ request \in RecordInputs
  /\ result = NoCall
  /\ remote = RemoteOk

\* const doc = transformIssue(raw)
TransformRecord ==
  /\ pc = "raw"
  /\ result' = transformIssueNested(request)
  /\ pc' = "transformed"
  /\ UNCHANGED <<db, wdb, inTxn, resume, response, err, outcome, obs, request>>
  /\ UNCHANGED issueVars
  /\ UNCHANGED chatVars
  /\ UNCHANGED remote

NextRecord == TransformRecord

SpecRecord == InitRecord /\ [][NextRecord]_vars

-----------------------------------------------------------------------------
(* Properties of the issue store and of main() *)

\* JSON.parse of a stored row: the document, Undef for a missing property.
ParseDoc(row) ==
  [g \in DocFields |-> IF g \in DOMAIN row.data THEN row.data[g] ELSE Undef]

\* The index entries whose indexed key is the given key.
EntriesOf(d, key) == {e \in d.fts : e.cols.key = <<key>>}

StoreContent(d) == {[key |-> r.key, data |-> r.data] : r \in d.issues}

IndexContent(d) ==
  {[cols |-> e.cols, count |-> Cardinality({q \in d.fts : q.cols = e.cols})] : e \in d.fts}

SameContent(d1, d2) ==
  /\ StoreContent(d1) = StoreContent(d2)
  /\ IndexContent(d1) = IndexContent(d2)

\* C1: every stored issue has exactly one index entry, and the entry's
\* indexed fields are the projection of the stored document.
C1_IndexConsistency ==
  \A r \in db.issues :
    \E e \in EntriesOf(db, r.key) :
      /\ EntriesOf(db, r.key) = {e}
      /\ \A c \in FtsColumns : e.cols[c] = FtsProjection(ParseDoc(r))[c]

\* C4: a second insertIssue of the same document leaves the store and the
\* index (entries and their number) as the first call left them.
C4_IdempotentUpsert ==
  (last.n >= 2 /\ last.issue = last.prev) => SameContent(db, last.before)

\* C5: insertIssue(D1); insertIssue(D2) with one key leaves what
\* insertIssue(D2) alone leaves.
C5_FullReplace ==
  (last.n >= 2 /\ last.issue.key = last.prev.key)
    => SameContent(db, insertIssue(last.before2, last.issue))

\* C3: once the catch block has rolled a failed batch back, the store, the
\* index and the position are what they were when the batch began; and no
\* committed document lacks its index entry.
C3_BatchAtomicity ==
  /\ pc \in {"classify", "backoff"} =>
       /\ ~inTxn
       /\ wdb = obs.base
       /\ db = obs.base
       /\ startAt = obs.baseAt
  /\ \A r \in db.issues :
       \E e \in db.fts : e.rowid = r.rowid /\ e.cols = FtsProjection(ParseDoc(r))

\* An index write failed after the document write of the second issue of a
\* batch that was not the first batch, and the batch was rolled back.
C3_Witness ==
  /\ pc = "classify"
  /\ obs.failStmt = 3
  /\ idx >= 1
  /\ obs.baseAt > 0

RECURSIVE InsertAll(_, _)
InsertAll(d, issues) ==
  IF issues = <<>> THEN d ELSE InsertAll(insertIssue(d, Head(issues)), Tail(issues))

RECURSIVE RunFrom(_, _)
RunFrom(d, at) ==
  IF ~(at < Len(Remote)) THEN createIndexes(d)
  ELSE RunFrom(InsertAll(d, fetchBatch(at, BatchSize)),
               at + Len(fetchBatch(at, BatchSize)))

\* The store one uninterrupted run over the remote corpus leaves.
UninterruptedStore == RunFrom(createDatabase, 0)

\* C6: a resumed run that reaches the end of the loop leaves the store of an
\* uninterrupted run.
C6_ResumeEquivalence ==
  (pc = "exited" /\ outcome = "done" /\ obs.resumedAt # -1) => db = UninterruptedStore

\* A run resumed after some, not all, batches were committed has completed.
C6_Witness ==
  /\ pc = "exited"
  /\ outcome = "done"
  /\ obs.resumedAt > 0
  /\ obs.resumedAt < Len(Remote)

\* C7: the first batch request of a resumed run is issued at the number of
\* documents the store holds at that moment.
C7_ResumePosition ==
  (obs.resumedAt # -1 /\ obs.firstAt # -1) => obs.firstAt = obs.firstCount

C7_Witness ==
  /\ obs.resumedAt > 0
  /\ obs.firstAt = obs.resumedAt
  /\ pc = "begin"

NoDuplicateKeys(d) ==
  \A r1, r2 \in d.issues : r1.key = r2.key => r1 = r2

\* C8: a run that met no authentication failure ends with all N documents,
\* the position at N and no key stored twice.
C8_TransientIngest ==
  (pc = "exited" /\ outcome \in {"done", "rollback_error"} /\ ~Includes40x(err))
    => /\ getResumePoint(db) = Len(Remote)
       /\ startAt = Len(Remote)
       /\ NoDuplicateKeys(db)

\* C9: a failure that is not an authentication failure never ends the run,
\* and while it is handled the position is the one of the failed request.
C9_TransientRetry ==
  /\ ~(pc = "exited" /\ outcome = "rollback_error" /\ ~Includes40x(err))
  /\ (pc \in {"classify", "backoff"} /\ ~Includes40x(err)) => startAt = obs.failAt

\* C10: after a 401/403 response at position p the run is Aborted with no
\* transaction open, the reported position is p, and p is the resume point.
C10_AuthAbort ==
  (pc = "exited" /\ err.phase = "fetch" /\ err.status \in {401, 403})
    => /\ outcome = "aborted"
       /\ ~inTxn
       /\ progress = obs.failAt
       /\ progress = getResumePoint(db)

\* The documents of the first n records of the remote corpus.
RemotePrefix(n) ==
  {[key |-> Remote[i].key, data |-> JSONStringify(transformIssue(Remote[i]))]
     : i \in 1..n}

\* C11: in every committed state of the issue store, during a run and after
\* it ended, was aborted or was killed, the stored documents are exactly the
\* documents of the first n records of the remote corpus in key order, for
\* n the number of stored documents (the remote corpus keeping its order).
C11_PrefixConsistency ==
  /\ Cardinality(db.issues) <= Len(Remote)
  /\ StoreContent(db) = RemotePrefix(Cardinality(db.issues))

\* A run killed or ended by an error with some batches committed, not all.
C11_Witness ==
  /\ pc \in {"killed", "exited"}
  /\ outcome \in {"killed", "rollback_error", "aborted"}
  /\ Cardinality(db.issues) >= BatchSize
  /\ Cardinality(db.issues) < Len(Remote)
  /\ StoreContent(db) = RemotePrefix(Cardinality(db.issues))

\* The catch block is handling the failure of a record that cannot be
\* transformed.
MalformedCaught == pc = "catch" /\ obs.failStmt = 0

\* C21: when a record of a batch cannot be transformed, the run reaches a
\* terminal state (aborted, or ended from outside) with the batch rolled
\* back: it does not retry the batch for ever.
C21_MalformedAborts ==
  MalformedCaught ~> (pc \in {"exited", "killed"} /\ ~inTxn /\ wdb = db)

\* C29: whenever main() is about to test the loop condition, and after
\* the loop, startAt is the number of documents in the committed store.
C29_CheckpointNeverDrifts ==
  pc \in {"loop", "finish"} => startAt = Cardinality(db.issues)

\* A resumed run that rolled a batch back, committed the rest and left
\* the loop after a last batch shorter than the size asked for.
C29_Witness ==
  /\ pc = "finish"
  /\ outcome = "running"
  /\ obs.resumedAt > 0
  /\ obs.baseAt > obs.resumedAt
  /\ obs.failStmt > 0
  /\ Len(response) < BatchSize
  /\ startAt = Cardinality(db.issues)
  /\ startAt = total

\* C30: the catch block of the fetch loop is entered with a transaction
\* open, so that its ROLLBACK has a transaction to roll back and raises no
\* error of its own.
C30_RollbackInsideTxn ==
  /\ pc = "catch" => inTxn
  /\ outcome # "rollback_error"

\* The failed response had HTTP status 401 or 403.
AuthStatus(e) == e.phase = "fetch" /\ e.status \in {401, 403}

\* C31: a failure ends the run if and only if the failed response had
\* status 401 or 403: a run that a failure has ended (aborted, or ended by
\* the error of the catch block) failed on a 401/403 response, and a
\* failure that is waited out and retried did not.
C31_FailureClassification ==
  /\ outcome \in {"aborted", "rollback_error"} => AuthStatus(err)
  /\ pc = "backoff" => ~AuthStatus(err)

\* A step in which a request, a statement or the connection test fails.
FailureStep ==
  \/ pc # "catch" /\ pc' = "catch"
  \/ pc = "testing" /\ pc' = "exited"

\* C28: if failures stop at some point, every run of main() ends, even
\* when a batch comes back shorter than asked for, or empty, while startAt
\* is below the total reported at the start.
C28_IngestTerminates ==
  <>[][~FailureStep]_vars => (Running ~> (pc \in {"exited", "killed"}))

-----------------------------------------------------------------------------
(* Properties of search() *)

Searched == pc = "searched" /\ result.ok

RowSet(rows) == {rows[k] : k \in 1..Len(rows)}

\* The stored documents whose own index projection matches q.
OwnMatch(d, q) == {i.data : i \in {y \in d.issues : Matches(FtsProjection(ParseDoc(y)), q)}}

\* The stored documents that pass every supplied filter.
PassAll(d, filters) ==
  {i.data : i \in {y \in d.issues :
                     \A f \in Supplied(filters) : Condition(f, filters, y.data)}}

\* The result was not cut by the limit.
Uncut == request.limit.n < 0 \/ Len(result.rows) < request.limit.n

\* C12: a full-text search returns, each once, stored documents whose own
\* index entry (the projection of the stored document) matches the
\* expression, and all of them when the limit does not cut the result; an
\* entry left behind by an earlier version or owned by another key never
\* brings a document into the result.
C12_JoinOwnership ==
  (Searched /\ request.query # NoQuery) =>
    /\ RowSet(result.rows) \subseteq
         OwnMatch(db, request.query) \cap PassAll(db, request.filters)
    /\ Cardinality(RowSet(result.rows)) = Len(result.rows)
    /\ Uncut => RowSet(result.rows) =
                  OwnMatch(db, request.query) \cap PassAll(db, request.filters)

\* A re-ingested key: an entry of its earlier version matches the
\* expression, its current document does not; the search returned others.
C12_Witness ==
  /\ Searched
  /\ request.query # NoQuery
  /\ result.rows # <<>>
  /\ \E e \in db.fts :
       /\ Matches(e.cols, request.query)
       /\ \A i \in db.issues : i.rowid # e.rowid
       /\ \E i \in db.issues :
            /\ <<i.key>> = e.cols.key
            /\ ~Matches(FtsProjection(ParseDoc(i)), request.query)

\* C13: every returned document passes every supplied filter, with and
\* without a full-text expression.
C13_FilterConjunction ==
  Searched =>
    \A k \in 1..Len(result.rows) :
      \A f \in Supplied(request.filters) :
        Condition(f, request.filters, result.rows[k])

\* Two filters supplied, documents returned, and a stored document that
\* passes one of the filters and fails the other was left out.
C13_Witness ==
  /\ Searched
  /\ Cardinality(Supplied(request.filters)) = 2
  /\ result.rows # <<>>
  /\ \E i \in db.issues :
       /\ \E f \in Supplied(request.filters) : Condition(f, request.filters, i.data)
       /\ \E f \in Supplied(request.filters) : ~Condition(f, request.filters, i.data)
       /\ i.data \notin RowSet(result.rows)

\* The filters without filter f.
WithoutFilter(filters, f) == [g \in (DOMAIN filters) \ {f} |-> filters[g]]

\* C14 as stated: for every limit, whatever search() returns with one
\* supplied filter removed contains what it returned with the filter.
C14_FilterMonotonicity ==
  Searched =>
    \A f \in Supplied(request.filters) :
      \A r \in search(db, WithoutFilter(request.filters, f), request.query, request.limit) :
        RowSet(result.rows) \subseteq RowSet(r.rows)

\* The number of rows the statement of search() selects before LIMIT.
MatchCount(d, filters, q) ==
  Cardinality(IF q # NoQuery THEN FtsRows(d, filters, q) ELSE PlainRows(d, filters))

\* C14, amended: when the limit is negative or at least the number of rows
\* selected with the filter removed, the result of the call with the filter
\* removed contains what search() returned with the filter.
C14_FilterMonotonicityUncut ==
  Searched =>
    \A f \in Supplied(request.filters) :
      \A r \in search(db, WithoutFilter(request.filters, f), request.query, request.limit) :
        (\/ request.limit.n < 0
         \/ MatchCount(db, WithoutFilter(request.filters, f), request.query)
              <= request.limit.n)
          => RowSet(result.rows) \subseteq RowSet(r.rows)

\* A filter is supplied, documents are returned under a limit, and
\* removing the filter selects more documents, not more than the limit.
C14_Witness ==
  /\ Searched
  /\ request.limit.n > 0
  /\ result.rows # <<>>
  /\ \E f \in Supplied(request.filters) :
       /\ MatchCount(db, WithoutFilter(request.filters, f), request.query)
            <= request.limit.n
       /\ MatchCount(db, WithoutFilter(request.filters, f), request.query)
            > Len(result.rows)

\* updated_at of a returned document, as its position in string order.
UpdatedOf(data) == UpdatedKey([fts |-> 0, i |-> [data |-> data]])

\* C15: without a full-text expression the returned documents are stored
\* documents, each once, in descending order of updated_at; without filters
\* and with a limit n >= 0 they are min(n, number of stored documents) many
\* and no stored document left out is more recent than a returned one.
C15_OrderByUpdated ==
  (Searched /\ request.query = NoQuery) =>
    /\ \A j, k \in 1..Len(result.rows) :
         j < k => UpdatedOf(result.rows[j]) >= UpdatedOf(result.rows[k])
    /\ RowSet(result.rows) \subseteq {i.data : i \in db.issues}
    /\ Cardinality(RowSet(result.rows)) = Len(result.rows)
    /\ (Supplied(request.filters) = {} /\ request.limit.n >= 0) =>
         /\ Len(result.rows) = Min(request.limit.n, Cardinality(db.issues))
         /\ \A i \in db.issues :
              i.data \notin RowSet(result.rows) =>
                \A k \in 1..Len(result.rows) : UpdatedOf(i.data) <= UpdatedOf(result.rows[k])

\* No expression, no filter, a limit below the number of stored documents,
\* and a stored document older than the returned ones is left out.
C15_Witness ==
  /\ Searched
  /\ request.query = NoQuery
  /\ Supplied(request.filters) = {}
  /\ request.limit.n >= 1
  /\ Len(result.rows) = request.limit.n
  /\ \E i \in db.issues :
       /\ i.data \notin RowSet(result.rows)
       /\ UpdatedOf(i.data) < UpdatedOf(result.rows[Len(result.rows)])

\* C16: whatever the --limit argument, search() returns at most `limit`
\* documents (none when the limit is not a number).
C16_LimitBound ==
  pc = "searched" =>
    IF request.limit.nan THEN result.rows = <<>>
    ELSE Len(result.rows) <= request.limit.n

\* C27: a step that starts or ends a call of the search tool (search, or
\* the sql command with any statement) leaves the table of documents and
\* the index as they were.
C27_QueriesReadOnly ==
  [][(request' # request) => (db' = db /\ wdb' = wdb)]_vars

\* The sql command was given a statement that writes, on a store that
\* holds documents; the statement failed.
C27_Witness ==
  /\ pc = "searched"
  /\ "sql" \in DOMAIN request
  /\ IsWrite(request.sql)
  /\ ~result.ok
  /\ db.issues # {}
  /\ db.fts # {}

-----------------------------------------------------------------------------
(* Properties of the chat store *)

\* C2: in every committed state of the chat store, the state a concurrent
\* reader sees, each stored message has an index entry with its current
\* values and each index entry belongs to a stored message.
C2_ReaderSeesIndexedStore ==
  /\ \A row \in db.messages :
       \E e \in db.fts : e.rowid = row.id /\ e.cols = MessageProjection(row)
  /\ \A e \in db.fts :
       \E row \in db.messages : row.id = e.rowid /\ e.cols = MessageProjection(row)

\* C22: on a resumed run the first request of every stream is anchored at
\* the largest message id stored for that stream, and at "oldest" exactly
\* when the store holds no message of that stream; messages of other
\* streams play no part.
C22_ResumeAnchor ==
  (resume /\ obs.firstAnchor # -1) =>
    /\ (obs.firstAnchor = Oldest) <=> (obs.firstStored = {})
    /\ obs.firstStored # {} => obs.firstAnchor = SetMax(obs.firstStored)

\* The first request of a stream of a resumed run has just been answered;
\* the stream had messages stored and another stream had later ones.
C22_Witness ==
  /\ resume
  /\ pc = "c_begin"
  /\ obs.firstStored # {}
  /\ obs.firstAnchor = SetMax(obs.firstStored)
  /\ anchor = obs.firstAnchor
  /\ \E m \in db.messages :
       m.id > obs.firstAnchor /\ m.stream_id # Streams[streamIdx].stream_id

\* The while loop of one stream, run without a failure from an anchor.
RECURSIVE DownloadStream(_, _, _)
DownloadStream(d, streamId, anch) ==
  LET res == getMessages(streamId, anch, NumAfter)
      d2  == insertMessages(d, res.messages)
  IN  IF res.messages = <<>> THEN d
      ELSE IF res.found_newest THEN d2
      ELSE DownloadStream(d2, streamId, res.messages[Len(res.messages)].id)

RECURSIVE DownloadStreams(_, _)
DownloadStreams(d, ss) ==
  IF ss = <<>> THEN d
  ELSE DownloadStreams(DownloadStream(d, Head(ss).stream_id, Oldest), Tail(ss))

\* The messages table one uninterrupted run of downloadWithApi leaves.
UninterruptedMessages ==
  DownloadStreams(insertStreams(createChatDatabase, Streams), Streams).messages

PublicMessageIds ==
  UNION {{m.id : m \in RemoteMessages(Streams[i].stream_id)} : i \in 1..Len(Streams)}

\* C24: a failure that is not an authentication failure does not end the
\* run, and the run is not reported done while a message of a public
\* stream is still unfetched.
C24_TransientChatRetry ==
  /\ ~(pc = "exited" /\ outcome = "rollback_error" /\ err.status \notin {401, 403})
  /\ (pc = "exited" /\ outcome = "done")
       => PublicMessageIds \subseteq {m.id : m \in db.messages}

\* C25: once a getMessages request was answered 401 or 403 the run is
\* on its way out or over, and no request was issued after that answer,
\* for the current stream or a later one.
C25_ChatAuthStops ==
  obs.authFailed =>
    /\ pc \in {"c_catch", "exited", "killed"}
    /\ ~obs.afterAuth

\* The run ended on a 401/403 answer with a batch committed and streams
\* left to download.
C25_Witness ==
  /\ obs.authFailed
  /\ pc = "exited"
  /\ db.messages # {}
  /\ streamIdx < Len(Streams)
  /\ obs.requested # {Streams[i].stream_id : i \in 1..Len(Streams)}

\* The ids of the streams the server marks web-public.
PublicIds == {AllStreams[n].stream_id : n \in {k \in 1..NumStreams : AllStreams[k].is_web_public}}

\* C26: messages are requested for web-public streams only, and every row
\* of streams and every stored message belongs to a web-public stream.
C26_PublicStreamsOnly ==
  /\ obs.requested \subseteq PublicIds
  /\ \A x \in db.streams : x.is_web_public /\ x.id \in PublicIds
  /\ \A m \in db.messages : m.stream_id \in PublicIds

\* A run is done with every public stream requested, while the server
\* holds a private stream that has messages.
C26_Witness ==
  /\ pc = "exited"
  /\ outcome = "done"
  /\ obs.requested = PublicIds
  /\ db.messages # {}
  /\ \E n \in 1..NumStreams :
       ~AllStreams[n].is_web_public /\ RemoteMessages(AllStreams[n].stream_id) # {}

-----------------------------------------------------------------------------
(* Properties of transformIssue *)

\* No empty sequence anywhere in a value.
RECURSIVE NoEmptySequence(_)
NoEmptySequence(val) ==
  IF val.t = "arr" THEN
    val.v # <<>> /\ \A k \in 1..Len(val.v) : NoEmptySequence(val.v[k])
  ELSE IF val.t = "obj" THEN \A p \in DOMAIN val.v : NoEmptySequence(val.v[p])
  ELSE TRUE

\* C18: no stored document holds an empty sequence, at the top of a field
\* or inside one: a raw value that resolves to an empty sequence leaves the
\* field absent.
C18_EmptyMeansAbsent ==
  \A r \in db.issues :
    \A g \in (DOMAIN r.data) \ {"key"} : NoEmptySequence(r.data[g])

\* The objects of a stored field: the value itself or the elements of the
\* sequence it is.
ObjectsOf(val) ==
  IF val.t = "obj" THEN {val}
  ELSE IF val.t = "arr" THEN {val.v[k] : k \in {j \in 1..Len(val.v) : val.v[j].t = "obj"}}
  ELSE {}

\* C19: every object stored under related_issues or duplicate_of that
\* refers to an issue (it has a key) has exactly the properties key,
\* summary, status and type.
C19_ReferenceReduced ==
  \A r \in db.issues :
    \A g \in (DOMAIN r.data) \cap {"related_issues", "duplicate_of"} :
      \A o \in ObjectsOf(r.data[g]) :
        "key" \in DOMAIN o.v => DOMAIN o.v = {"key", "summary", "status", "type"}

\* The raw fields transformIssue reads by name, with the property each
\* one is stored under.
StandardFields ==
  [summary |-> "summary", description |-> "description", status |-> "status",
   updated |-> "updated_at", labels |-> "labels", comment |-> "comments"]

\* C20: of the raw fields of the issue just stored, one listed in
\* FIELD_MAP whose value resolves to something is stored under its
\* semantic name and not under its raw identifier, and one that is neither
\* read by name, nor listed in FIELD_MAP, nor excluded is stored under its
\* raw identifier.
C20_RenameAndPassThrough ==
  last.n >= 1 =>
    \A r \in {x \in db.issues : x.key = last.issue.key} :
      \A j \in DOMAIN last.issue.fields :
        IF j \in DOMAIN FIELD_MAP THEN
          /\ j \notin DOMAIN r.data
          /\ extractValue(last.issue.fields[j]).t # "null" => FIELD_MAP[j] \in DOMAIN r.data
        ELSE (j \notin SKIP_FIELDS /\ j \notin DOMAIN StandardFields)
               => j \in DOMAIN r.data

\* C35: for a raw record with a key and a fields mapping whose optional
\* fields are each present, missing or null, transformIssue throws nothing
\* and returns one document (the same one for the same record: it reads
\* nothing but its argument).
C35_TransformTotal ==
  (pc = "transformed" /\ OptionalFieldsMissingOrNull(request)) =>
    /\ result.ok
    /\ result = transformIssueNested(request)

\* A record without reporter, components, attachments and sub-tasks, with a
\* null assignee and a comment whose author is missing, was transformed.
C35_Witness ==
  /\ pc = "transformed"
  /\ OptionalFieldsMissingOrNull(request)
  /\ Get(request.fields, "reporter") = Undef
  /\ Get(request.fields, "assignee") = Null
  /\ Get(request.fields, "components") = Undef
  /\ Get(request.fields, "attachment") = Null
  /\ Get(request.fields, "subtasks") = Undef
  /\ Get(request.fields, "comment") = Obj([comments |-> Arr(<<CommentOf(Undef)>>)])
  /\ result.ok
  /\ result.doc.comments.t = "arr"

\* The document holds the person as its display name and handle, under the
\* keys name and username, and nothing else of it.
PersonReduced(stored, person) ==
  /\ stored.t = "obj"
  /\ DOMAIN stored.v = {"name", "username"}
  /\ stored.v.name = Get(person, "displayName")
  /\ stored.v.username = Get(person, "name")

\* C36: every person object of the raw record (reporter, assignee, creator,
\* author of a comment) is stored as exactly {name: displayName, username:
\* handle}, also when it lacks a handle or a display name.
C36_PersonReduction ==
  (pc = "transformed" /\ result.ok) =>
    /\ \A g \in {"reporter", "assignee", "creator"} :
         Get(request.fields, g).t = "obj"
           => PersonReduced(result.doc[g], Get(request.fields, g))
    /\ result.doc.comments.t = "arr" =>
         \A k \in 1..Len(result.doc.comments.v) :
           LET author == Get(Get(Get(request.fields, "comment"), "comments").v[k], "author")
           IN  author.t = "obj"
                 => PersonReduced(result.doc.comments.v[k].v.author, author)

\* C37: no field of the raw record whose identifier is in SKIP_FIELDS is in
\* a stored document: not under its raw identifier, and its value not under
\* any other name.
C37_ExclusionSet ==
  /\ \A r \in db.issues : (DOMAIN r.data) \cap SKIP_FIELDS = {}
  /\ last.n >= 1 =>
       \A r \in {x \in db.issues : x.key = last.issue.key} :
         \A j \in (DOMAIN last.issue.fields) \cap SKIP_FIELDS :
           \A g \in (DOMAIN r.data) \ {"key"} : r.data[g] # last.issue.fields[j]

\* An issue whose raw record holds a field of SKIP_FIELDS and a field that
\* is neither mapped nor excluded has been stored over an earlier version.
C37_Witness ==
  /\ last.n >= 2
  /\ last.prev.key = last.issue.key
  /\ "workratio" \in DOMAIN last.issue.fields
  /\ last.issue.fields.workratio.t = "str"
  /\ \E r \in db.issues :
       r.key = last.issue.key /\ "specification" \in DOMAIN r.data

-----------------------------------------------------------------------------
(* Properties of getThread() *)

\* The ids of the stored messages of one (stream, topic) grouping, ascending.
RECURSIVE SortIds(_)
SortIds(S) ==
  IF S = {} THEN <<>>
  ELSE LET m == CHOOSE x \in S : \A y \in S : x <= y
       IN  <<m>> \o SortIds(S \ {m})

Grouping(d, streamName, topic) ==
  {m.id : m \in {x \in d.messages : x.stream_name = streamName /\ x.topic = topic}}

\* C17: a snapshot of a (stream, topic) grouping returns the messages of
\* that grouping, all of them, in ascending id order, whatever --limit is.
C17_SnapshotComplete ==
  (request # NoRequest /\ request.fullSnapshot) =>
    /\ result.ok
    /\ [k \in 1..Len(result.rows) |-> result.rows[k].id]
         = SortIds(Grouping(db, request.stream, request.topic))


\* C34: thread and snapshot return only messages of the stream and the
\* topic asked for: every row returned has that stream name and that topic.
C34_GroupingIsolation ==
  request # NoRequest =>
    \A k \in 1..Len(result.rows) :
      /\ result.rows[k].stream_name = request.stream
      /\ result.rows[k].topic = request.topic

-----------------------------------------------------------------------------
(* Properties of both download loops *)

\* The streams the for loop has reached so far.
StreamsReached ==
  {Streams[k].stream_id : k \in {j \in 1..Len(Streams) : j <= streamIdx}}

\* C32: whenever either downloader is about to issue a request, and while
\* the answer to it has just arrived, no transaction is open and the
\* connection holds nothing that is not committed: the batch before it was
\* committed or rolled back.  The chat downloader has sent requests
\* only for the streams its loop has reached.
C32_NoPipelining ==
  /\ pc \in {"loop", "begin", "c_stream", "c_loop", "c_begin"}
       => ~inTxn /\ wdb = db
  /\ ChatStore(db) /\ ChatRunning => obs.requested \subseteq StreamsReached

\* The second request of the second stream has been answered, after the
\* batch of an earlier stream was rolled back and the first batch of this
\* stream was committed.
C32_Witness ==
  /\ pc = "c_begin"
  /\ streamIdx >= 2
  /\ obs.failed
  /\ anchor # Oldest
  /\ ~resume
  /\ StoredIds(db, Streams[streamIdx].stream_id) # {}


\* C33: within one stream the anchor of each request is greater than the
\* anchor of the request before it, whatever the server answers: when a
\* batch is committed and another request follows, the anchor has grown.
C33_ChatCursorProgress ==
  [][(pc = "c_commit" /\ pc' = "c_loop" /\ ~foundNewest') => anchor' > anchor]_vars


\* The keys of the documents of a store: issue keys, message ids.
StoredKeys(d) ==
  IF IssueStore(d) THEN {r.key : r \in d.issues} ELSE {m.id : m \in d.messages}

\* C38: a run with resume on removes no committed document; a run that
\* does not resume an existing store starts from an empty store, the issue
\* run at position 0; and documents are removed only by the step that
\* follows the successful connection test.
C38_ResumeFlagEffect ==
  [][/\ (resume /\ resume') => StoredKeys(db) \subseteq StoredKeys(db')
     /\ (pc \in {"open", "c_open"} /\ pc' \in {"loop", "c_insert_streams"}
           /\ ~(resume /\ db.exists))
          => (StoredKeys(db') = {} /\ db'.exists /\ startAt' = 0)
     /\ ~(StoredKeys(db) \subseteq StoredKeys(db')) => pc \in {"open", "c_open"}]_vars

\* A resumed run found documents in the store, kept them and has added
\* the rest of the corpus.
C38_Witness ==
  /\ IssueStore(db)
  /\ pc = "finish"
  /\ resume
  /\ obs.resumedAt >= BatchSize
  /\ startAt = total
  /\ Cardinality(db.issues) > obs.resumedAt


-----------------------------------------------------------------------------
(* Properties of the comments table *)

\* The rows of comments with issue_key = key.
CommentRows(d, key) == {c \in d.comments : c.issue_key = key}

\* The bodies of a set of comment rows in id order.
RECURSIVE BodiesById(_)
BodiesById(S) ==
  IF S = {} THEN <<>>
  ELSE LET c == CHOOSE x \in S : \A y \in S : x.id <= y.id
       IN  <<c.body>> \o BodiesById(S \ {c})

\* C39: after any sequence of insertIssue calls every issue has as many
\* rows in comments as its comment_count says; the rows of the issue just
\* inserted are the comments of the record just inserted, and the rows of
\* every other issue are the ones it had before the call.
C39_CommentTableConsistency ==
  /\ \A r \in db.issues : Cardinality(CommentRows(db, r.key)) = r.comment_count
  /\ \A c \in db.comments : \E r \in db.issues : r.key = c.issue_key
  /\ last.n >= 1 =>
       /\ BodiesById(CommentRows(db, last.issue.key))
            = [i \in 1..Len(last.issue.fields.comment) |->
                 TextOf(last.issue.fields.comment[i].body)]
       /\ \A r \in db.issues :
            r.key # last.issue.key
              => CommentRows(db, r.key) = CommentRows(last.before, r.key)

\* An issue stored with two comments has been stored again with one.
C39_Witness ==
  /\ last.n >= 2
  /\ last.prev.key = last.issue.key
  /\ Len(last.prev.fields.comment) = 2
  /\ Len(last.issue.fields.comment) = 1
  /\ Cardinality(CommentRows(db, last.issue.key)) = 1
  /\ Cardinality(db.issues) = 2

====
